---- MODULE Spec2Model ----
(***************************************************************************)
(* Speech-to-text orchestration of OpenCut: the zustand store              *)
(* (speech-to-text-store), the speech-to-text worker it drives, and the    *)
(* worker's ASRPipelineFactory singleton.                                  *)
(*                                                                         *)
(* One step of the model is one macrotask of the JavaScript event loop:    *)
(* a store method call, a message or error event handler, or the           *)
(* continuation of an await on a real asynchronous operation, each with    *)
(* the promise continuations (microtasks) it triggers.                     *)
(***************************************************************************)
EXTENDS Integers, Sequences, FiniteSets, TLC

\* ---- bounds -------------------------------------------------------------
MaxWorkers == 2      \* initializeWorker attempts (one Worker object each)
MaxCalls == 2        \* processSelectedElement calls (one job each)
MaxRuns == 3         \* initializeWorker attempts and processSelectedElement calls together
MaxOutbox == 1       \* progress updates queued from a worker to the store
MaxElements == 2     \* eligible media elements on the timeline
MaxModels == 1       \* entries of availableModels the user picks from
MaxGets == 3         \* getInstance calls made in the worker
MaxGetModels == 2    \* model identifiers those calls name
MaxTextLen == 3      \* characters of a chunk's text
MaxChunks == 2       \* chunks of an engine output
MaxTracks == 2       \* text tracks insertResultToTimeline adds
MaxSamples == 5      \* samples of a decoded audio buffer
MaxAudioElements == 2 \* media elements of the track whose audio is extracted

\* ---- program constants --------------------------------------------------
availableModels == <<"Xenova/whisper-tiny.en", "Xenova/whisper-base.en",
                     "Xenova/whisper-small.en">>
Models == {availableModels[i] : i \in 1..MaxModels}
DefaultModel == availableModels[1]
Stages == {"loading", "initializing", "downloading", "transcribing",
           "ready", "terminated", "error"}
LoadProgress == {0, 50}
StreamProgress == {5}

GetModels == {availableModels[i] : i \in 1..MaxGetModels}
GetIds == 1..MaxGets
WorkerIds == 1..MaxWorkers
CallIds == 1..MaxCalls

VARIABLES
  \* SpeechToTextStore
  worker,                  \* 0 = null, else the Worker object's id
  isWorkerInitialized,
  initializationPromise,   \* 0 = null, else the id of the initializeWorker run
  selectedModel,
  modelConfig,             \* <<>> = null, else [device, dtype, modelName]
  processingStatus,        \* [isProcessing, stage, progress, error]
  results,                 \* sequence of TranscriptionResult
  \* timeline store
  selectedElements,        \* 0 = nothing eligible selected, else the element
  \* browser
  hasWebGPU,               \* what detectWebGPU() answers
  hasWASM,                 \* what detectWASM() answers
  \* Worker objects, initializeWorker runs, processSelectedElement runs
  workers,
  inits,
  calls,
  \* ASRPipelineFactory (worker global scope)
  instance,                \* 0 = null, else the pipeline's id
  currentModel,            \* "" = null
  pipelines,               \* every pipeline constructed so far
  gets,                    \* getInstance calls
  \* timeline store
  elementStartTime,        \* startTime of the selected element (thousandths of a second)
  tracks,                  \* the text tracks added, each the sequence of its elements
  \* transcript.ts
  whisperOutput,           \* the engine output handed to createTranscriptFromWhisperOutput
  transcript,              \* <<>> = none yet, else the Transcript it returned
  srtTranscript,           \* the transcript handed to transcriptToSRT (whole milliseconds)
  downloads,               \* the SRT files downloadSRT has saved
  \* audio-extraction.ts
  trimCall,                \* the arguments of a trimAudioBuffer call
  trimmedBuffer,           \* NoBuffer = not called yet, else the AudioBuffer it returned
  resampleCall,            \* the arguments of a resampleAudio call
  resampledData,           \* <<>> = not called yet, else <<the Float32Array it returned>>
  audioElements,           \* the track's elements with their media items
  extractedAudio,          \* what the extraction calls have returned or thrown
  \* speech-to-text worker, one transcribe call and the jobs of a worker
  transcribeCall,          \* the locals of a transcribe call and what it has posted
  jobs,                    \* per job message: its audio and its getInstance call
  \* KokoroTTSService and the tts worker
  tts,                     \* the service object's fields
  ttsWorker,               \* the tts worker: its module, its requests, its messages
  ttsCalls                 \* the promises initialize and generateSpeech returned

storeVars == <<worker, isWorkerInitialized, initializationPromise, selectedModel,
               modelConfig, processingStatus, results, selectedElements,
               hasWebGPU, hasWASM, workers, inits, calls>>
factoryVars == <<instance, currentModel, pipelines, gets>>
timelineVars == <<elementStartTime, tracks>>
transcriptVars == <<whisperOutput, transcript>>
srtVars == <<srtTranscript, downloads>>
audioVars == <<trimCall, trimmedBuffer, resampleCall, resampledData,
               audioElements, extractedAudio>>
serviceVars == <<transcribeCall, jobs, tts, ttsWorker, ttsCalls>>
libVars == <<whisperOutput, transcript, srtTranscript, downloads,
             trimCall, trimmedBuffer, resampleCall, resampledData,
             audioElements, extractedAudio>>
vars == <<worker, isWorkerInitialized, initializationPromise, selectedModel,
          modelConfig, processingStatus, results, selectedElements,
          hasWebGPU, hasWASM, workers, inits, calls,
          instance, currentModel, pipelines, gets,
          elementStartTime, tracks, whisperOutput, transcript,
          srtTranscript, downloads,
          trimCall, trimmedBuffer, resampleCall, resampledData,
          audioElements, extractedAudio,
          transcribeCall, jobs, tts, ttsWorker, ttsCalls>>

\* ---- values -------------------------------------------------------------
Status(p, st, pr, err) ==
  [isProcessing |-> p, stage |-> st, progress |-> pr, error |-> err]

NoWorker == [status |-> "none", inbox |-> <<>>, outbox |-> <<>>,
             transformers |-> FALSE, tested |-> FALSE]
NoInit == [pc |-> "none", workerReady |-> FALSE, aborted |-> FALSE,
           model |-> ""]
NoCall == [pc |-> "none", worker |-> 0, model |-> "", awaits |-> 0,
           element |-> 0, job |-> "none"]

NoGet == [pc |-> "none", model |-> "", target |-> 0, result |-> 0]

\* get(): the mutable world the handlers read and write
World ==
  [worker |-> worker, isWorkerInitialized |-> isWorkerInitialized,
   initializationPromise |-> initializationPromise,
   selectedModel |-> selectedModel, modelConfig |-> modelConfig,
   processingStatus |-> processingStatus, results |-> results,
   workers |-> workers, inits |-> inits, calls |-> calls]

\* set(): publish the world a handler has produced
Commit(w) ==
  /\ worker' = w.worker
  /\ isWorkerInitialized' = w.isWorkerInitialized
  /\ initializationPromise' = w.initializationPromise
  /\ selectedModel' = w.selectedModel
  /\ modelConfig' = w.modelConfig
  /\ processingStatus' = w.processingStatus
  /\ results' = w.results
  /\ workers' = w.workers
  /\ inits' = w.inits
  /\ calls' = w.calls

\* ---- messages -----------------------------------------------------------
TestMsg == [test |-> TRUE, job |-> 0]
JobMsg(c) == [test |-> FALSE, job |-> c]
UpdateMsg(st, pr, c) ==
  [status |-> "update", stage |-> st, progress |-> pr, message |-> "", job |-> c]
CompleteMsg(c) ==
  [status |-> "complete", stage |-> "", progress |-> 0, message |-> "", job |-> c]
ErrorMsg(msg, c) ==
  [status |-> "error", stage |-> "", progress |-> 0, message |-> msg, job |-> c]

ErrNoFile == "No media file found for selected element"
ErrExtract == "Failed to extract audio"
ErrCtor == "Failed to construct Worker"
ErrComm == "Failed to communicate with worker"
ErrScript == "Worker initialization failed"
ErrBackend == "Neither WebGPU nor WebAssembly is available"
ErrImport == "Failed to load AI model dependencies"
ErrFetch == "Failed to fetch dynamically imported module"
ErrNoAudio == "No audio data provided"
ErrNoModel == "No model specified"
ErrTranscribe == "Transcription error"

\* ---- store: helpers -----------------------------------------------------
\* getSelectedElementInfo: null (0) unless the first selected element is a
\* media element whose media item is audio or video
getSelectedElementInfo == selectedElements

NextInit(w) == 1 + Cardinality({i \in WorkerIds : w.inits[i].pc # "none"})
NextCall(w) == 1 + Cardinality({c \in CallIds : w.calls[c].pc # "none"})

\* worker.terminate(): the worker stops and the messages queued in either
\* direction are discarded
Terminate(wk) ==
  [wk EXCEPT !.status = "terminated", !.inbox = <<>>, !.outbox = <<>>,
             !.transformers = FALSE, !.tested = FALSE]

\* the jobs a terminated worker takes with it
Discard(cls, k) ==
  [c \in CallIds |->
     IF cls[c].pc = "posted" /\ cls[c].worker = k
        /\ cls[c].job \in {"queued", "import", "loading", "transcribing", "sent"}
     THEN [cls[c] EXCEPT !.job = "cancelled"]
     ELSE cls[c]]

\* worker.postMessage(m): a terminated worker ignores it
PostTo(w, k, m) ==
  IF w.workers[k].status = "alive"
  THEN [w EXCEPT !.workers[k].inbox = Append(@, m)]
  ELSE w

\* terminateWorker reporting the cancellation as a failure
terminateWorkerAsError(w) ==
  IF w.worker # 0
  THEN [w EXCEPT !.workers[w.worker] = Terminate(@),
                 !.calls = Discard(@, w.worker),
                 !.worker = 0,
                 !.isWorkerInitialized = FALSE,
                 !.initializationPromise = 0,
                 !.processingStatus = Status(FALSE, "error", 0, "terminated")]
  ELSE w

terminateWorker(w) ==
  IF w.worker # 0
  THEN [w EXCEPT !.workers[w.worker] = Terminate(@),
                 !.calls = Discard(@, w.worker),
                 !.worker = 0,
                 !.isWorkerInitialized = FALSE,
                 !.initializationPromise = 0,
                 !.processingStatus = Status(FALSE, "terminated", 0, "")]
  ELSE w

\* processSelectedElement from the element check on (after the worker is
\* known to be initialized), up to the await on the audio extraction
ContinueCall(w, c, fileOk) ==
  IF getSelectedElementInfo = 0
  THEN [w EXCEPT !.calls[c].pc = "failed"]
  ELSE IF w.calls[c].worker = 0
  THEN [w EXCEPT !.calls[c].pc = "failed"]
  ELSE IF ~fileOk
  THEN [w EXCEPT !.calls[c].pc = "failed",
                 !.calls[c].element = getSelectedElementInfo,
                 !.processingStatus = Status(FALSE, "error", 0, ErrNoFile)]
  ELSE [w EXCEPT !.calls[c].pc = "extracting",
                 !.calls[c].element = getSelectedElementInfo,
                 !.processingStatus = Status(TRUE, "loading", 0, "")]

\* the continuations of `await state.initializeWorker()` once run i settles
RECURSIVE ResumeCalls(_, _, _, _, _)
ResumeCalls(w, i, ok, fileOk, c) ==
  IF c > MaxCalls THEN w
  ELSE LET w1 == IF w.calls[c].pc = "awaitInit" /\ w.calls[c].awaits = i
                 THEN IF ok THEN ContinueCall(w, c, fileOk)
                      ELSE [w EXCEPT !.calls[c].pc = "failed"]
                 ELSE w
       IN ResumeCalls(w1, i, ok, fileOk, c + 1)

\* initializeWorker's catch block; the run's promise rejects
InitCatch(w, i, msg) ==
  LET w1 == [w EXCEPT !.worker = 0,
                      !.isWorkerInitialized = FALSE,
                      !.initializationPromise = 0,
                      !.processingStatus = Status(FALSE, "error", 0, msg),
                      !.inits[i].pc = "rejected"]
  IN ResumeCalls(w1, i, FALSE, TRUE, 1)

\* the promise an initializeWorker call returns
InitPromiseOf(w) ==
  IF w.initializationPromise # 0 THEN w.initializationPromise ELSE NextInit(w)

\* initializeWorker up to its first suspension; ctorOk: new Worker() does not
\* throw, postOk: the test postMessage does not throw
initializeWorker(w, ctorOk, postOk) ==
  IF w.initializationPromise # 0 THEN w
  ELSE
    LET i == NextInit(w)
        w0 == IF w.worker # 0 THEN terminateWorker(w) ELSE w
        run == [NoInit EXCEPT !.model = w.selectedModel, !.pc = "awaitReady"]
    IN IF ~ctorOk
       THEN [InitCatch([w0 EXCEPT !.inits[i] = run], i, ErrCtor)
               EXCEPT !.initializationPromise = i]
       ELSE IF ~postOk
       THEN InitCatch(
              [w0 EXCEPT !.workers[i] = [NoWorker EXCEPT !.status = "alive"],
                         !.inits[i] = [run EXCEPT !.aborted = TRUE],
                         !.processingStatus = Status(FALSE, "error", 0, ErrComm),
                         !.worker = i,
                         !.initializationPromise = i],
              i, ErrComm)
       ELSE [w0 EXCEPT !.workers[i] = [NoWorker EXCEPT !.status = "alive",
                                                       !.inbox = <<TestMsg>>],
                       !.inits[i] = run,
                       !.worker = i,
                       !.initializationPromise = i]

getDeviceCapabilities == [hasWebGPU |-> hasWebGPU, hasWASM |-> hasWASM]

\* getOptimalBackend: <<>> when it throws
getOptimalBackend ==
  LET capabilities == getDeviceCapabilities
  IN IF capabilities.hasWebGPU THEN [device |-> "webgpu", dtype |-> "fp16"]
     ELSE IF capabilities.hasWASM THEN [device |-> "wasm", dtype |-> "q8"]
     ELSE <<>>

\* initializeWorker after `await getOptimalBackend()`
InitFinish(w, i, fileOk) ==
  LET backendConfig == getOptimalBackend
  IN IF backendConfig = <<>>
     THEN InitCatch(w, i, ErrBackend)
     ELSE ResumeCalls(
            [w EXCEPT !.isWorkerInitialized = TRUE,
                       !.modelConfig = [device |-> backendConfig.device,
                                        dtype |-> backendConfig.dtype,
                                        modelName |-> w.inits[i].model],
                       !.processingStatus = Status(FALSE, "ready", 100, ""),
                       !.initializationPromise = 0,
                       !.inits[i].pc = "resolved"],
            i, TRUE, fileOk, 1)

\* worker.onmessage of the Worker object k (created by run k)
onmessage(w, k, m) ==
  IF w.inits[k].aborted THEN w
  ELSE IF m.status = "update" THEN
    LET w1 == [w EXCEPT !.processingStatus =
                 Status(TRUE, IF m.stage = "" THEN "initializing" ELSE m.stage,
                        m.progress, "")]
    IN IF ~w.inits[k].workerReady /\ (m.stage = "ready" \/ m.progress > 0)
       THEN [w1 EXCEPT !.inits[k].workerReady = TRUE,
                       !.inits[k].pc = IF @ = "awaitReady" THEN "awaitBackend" ELSE @]
       ELSE w1
  ELSE IF m.status = "complete" THEN
    LET w1 == [w EXCEPT !.calls[m.job].job = "completeHandled"]
    IN IF getSelectedElementInfo # 0
       THEN [w1 EXCEPT !.results = Append(@, [id |-> m.job,
                                              trackId |-> getSelectedElementInfo]),
                       !.processingStatus = Status(FALSE, "ready", 100, "")]
       ELSE w1
  ELSE
    LET w1 == [w EXCEPT !.calls[m.job].job = "errorHandled",
                        !.processingStatus = Status(FALSE, "error", 0, m.message)]
    IN IF ~w.inits[k].workerReady /\ w.inits[k].pc = "awaitReady"
       THEN InitCatch(w1, k, m.message)
       ELSE w1

\* worker.onerror, then the 'error' listener (which finds the run aborted)
onerror(w, k) ==
  IF w.inits[k].aborted THEN w
  ELSE LET w1 == [w EXCEPT !.inits[k].aborted = TRUE,
                           !.processingStatus = Status(FALSE, "error", 0, ErrScript)]
       IN IF w.inits[k].pc = "awaitReady" THEN InitCatch(w1, k, ErrScript) ELSE w1

setSelectedModel(w, modelName, ctorOk, postOk) ==
  LET w1 == [w EXCEPT !.selectedModel = modelName]
  IN IF w1.isWorkerInitialized THEN initializeWorker(w1, ctorOk, postOk) ELSE w1

\* processSelectedElement up to its first suspension
processSelectedElement(w, ctorOk, postOk, fileOk) ==
  LET c == NextCall(w)
      call == [NoCall EXCEPT !.worker = w.worker, !.model = w.selectedModel]
  IN IF ~w.isWorkerInitialized
     THEN LET p == InitPromiseOf(w)
              w1 == initializeWorker(w, ctorOk, postOk)
              w2 == [w1 EXCEPT !.calls[c] = [call EXCEPT !.pc = "awaitInit",
                                                         !.awaits = p]]
          IN IF w2.inits[p].pc = "rejected"
             THEN [w2 EXCEPT !.calls[c].pc = "failed"]
             ELSE IF w2.inits[p].pc = "resolved"
             THEN ContinueCall(w2, c, fileOk)
             ELSE w2
     ELSE ContinueCall([w EXCEPT !.calls[c] = call], c, fileOk)

\* processSelectedElement after `await state.extractAudioFromElement(...)`
ExtractFinish(w, c, ok) ==
  IF ok
  THEN PostTo([w EXCEPT !.calls[c].pc = "posted",
                        !.calls[c].job = IF w.workers[w.calls[c].worker].status = "alive"
                                         THEN "queued" ELSE "lost"],
              w.calls[c].worker, JobMsg(c))
  ELSE [w EXCEPT !.calls[c].pc = "failed",
                 !.processingStatus = Status(FALSE, "error", 0, ErrExtract)]

resetState(w) ==
  LET w1 == IF w.worker # 0 THEN terminateWorker(w) ELSE w
  IN [w1 EXCEPT !.worker = 0,
                !.isWorkerInitialized = FALSE,
                !.initializationPromise = 0,
                !.modelConfig = <<>>,
                !.processingStatus = Status(FALSE, "ready", 0, ""),
                !.results = <<>>]

removeResult(w, resultId) ==
  [w EXCEPT !.results = SelectSeq(@, LAMBDA r : r.id # resultId)]

clearResults(w) == [w EXCEPT !.results = <<>>]

\* ---- speech-to-text worker ----------------------------------------------
\* the options ASRPipelineFactory.getInstance passes to pipeline()
PipelineOptions(model) ==
  [device |-> "webgpu",
   dtype |-> [encoder_model |-> IF model = "onnx-community/whisper-large-v3-turbo"
                                THEN "fp16" ELSE "fp32",
              decoder_model_merged |-> "q4"]]

Post(w, k, m) == [w EXCEPT !.workers[k].outbox = Append(@, m)]

\* transcribe(message) going to getInstance whatever the message holds
transcribeStartUnchecked(w, k, c, empty) ==
  [w EXCEPT !.calls[c].job = "loading"]

\* transcribe(message) up to the await on ASRPipelineFactory.getInstance
transcribeStart(w, k, c, empty) ==
  IF empty
  THEN Post([w EXCEPT !.calls[c].job = "sent"], k, ErrorMsg(ErrNoAudio, c))
  ELSE IF w.calls[c].model = ""
  THEN Post([w EXCEPT !.calls[c].job = "sent"], k, ErrorMsg(ErrNoModel, c))
  ELSE [w EXCEPT !.calls[c].job = "loading"]

\* the worker's message listener up to its first suspension
workerListener(w, k, empty) ==
  LET m == Head(w.workers[k].inbox)
      w1 == [w EXCEPT !.workers[k].inbox = Tail(@)]
  IN IF m.test
     THEN Post([w1 EXCEPT !.workers[k].tested = TRUE], k, UpdateMsg("ready", 100, 0))
     ELSE IF ~w.workers[k].transformers
     THEN [w1 EXCEPT !.calls[m.job].job = "import"]
     ELSE transcribeStart(w1, k, m.job, empty)

\* after `await initTransformers()`
importFinish(w, k, c, ok, empty) ==
  IF ok
  THEN transcribeStart([w EXCEPT !.workers[k].transformers = TRUE], k, c, empty)
  ELSE Post(Post([w EXCEPT !.calls[c].job = "sent"], k, ErrorMsg(ErrImport, c)),
            k, ErrorMsg(ErrFetch, c))

\* after `await ASRPipelineFactory.getInstance(...)`
loadFinish(w, k, c, ok) ==
  IF ok
  THEN [w EXCEPT !.calls[c].job = "transcribing"]
  ELSE Post([w EXCEPT !.calls[c].job = "sent"], k, ErrorMsg(ErrTranscribe, c))

\* inferenceFinish followed by one more progress message of the job
inferenceFinishThenUpdate(w, k, c, ok) ==
  Post(Post([w EXCEPT !.calls[c].job = "sent"], k,
            IF ok THEN CompleteMsg(c) ELSE ErrorMsg(ErrTranscribe, c)),
       k, UpdateMsg("transcribing", 95, c))

\* after `await transcriber(audio, transcriptionOptions)`
inferenceFinish(w, k, c, ok) ==
  IF ok
  THEN Post([w EXCEPT !.calls[c].job = "sent"], k, CompleteMsg(c))
  ELSE Post([w EXCEPT !.calls[c].job = "sent"], k, ErrorMsg(ErrTranscribe, c))

Alive(k) == workers[k].status = "alive"
JobAt(k, c, pc) == calls[c].pc = "posted" /\ calls[c].worker = k /\ calls[c].job = pc

\* ---- actions: store -----------------------------------------------------
Store(w) ==
  /\ Commit(w)
  /\ UNCHANGED <<selectedElements, hasWebGPU, hasWASM,
                 instance, currentModel, pipelines, gets>>
  /\ UNCHANGED <<timelineVars, libVars, serviceVars>>

Runs(w) == (NextInit(w) - 1) + (NextCall(w) - 1)

\* an initializeWorker call made with `others` more runs started along with it
CanInit(w, others) ==
  \/ w.initializationPromise # 0
  \/ NextInit(w) <= MaxWorkers /\ Runs(w) + others < MaxRuns

InitializeWorker ==
  /\ CanInit(World, 0)
  /\ \E ctorOk, postOk \in BOOLEAN : Store(initializeWorker(World, ctorOk, postOk))

BackendProbed ==
  \E i \in WorkerIds, fileOk \in BOOLEAN :
    /\ inits[i].pc = "awaitBackend"
    /\ Store(InitFinish(World, i, fileOk))

TerminateWorker == Store(terminateWorker(World))

SetSelectedModel ==
  \E m \in Models, ctorOk, postOk \in BOOLEAN :
    /\ isWorkerInitialized => CanInit(World, 0)
    /\ Store(setSelectedModel(World, m, ctorOk, postOk))

ProcessSelectedElement ==
  \E ctorOk, postOk, fileOk \in BOOLEAN :
    /\ NextCall(World) <= MaxCalls
    /\ Runs(World) < MaxRuns
    /\ ~isWorkerInitialized => CanInit(World, 1)
    /\ Store(processSelectedElement(World, ctorOk, postOk, fileOk))

AudioExtracted ==
  \E c \in CallIds, ok \in BOOLEAN :
    /\ calls[c].pc = "extracting"
    /\ Store(ExtractFinish(World, c, ok))

WorkerMessage ==
  \E k \in WorkerIds :
    /\ workers[k].outbox # <<>>
    /\ Store(onmessage([World EXCEPT !.workers[k].outbox = Tail(@)], k,
                       Head(workers[k].outbox)))

WorkerError ==
  \E k \in WorkerIds :
    /\ Alive(k)
    /\ ~workers[k].tested
    /\ Store(onerror([World EXCEPT !.workers[k].status = "broken",
                                   !.workers[k].inbox = <<>>], k))

ClearResults == Store(clearResults(World))

ResetState == Store(resetState(World))

RemoveResult ==
  \E i \in DOMAIN results : Store(removeResult(World, results[i].id))

SelectElement ==
  /\ \E e \in 0..MaxElements : e # selectedElements /\ selectedElements' = e
  /\ UNCHANGED <<worker, isWorkerInitialized, initializationPromise, selectedModel,
                 modelConfig, processingStatus, results, hasWebGPU, hasWASM,
                 workers, inits, calls, instance, currentModel, pipelines, gets>>
  /\ UNCHANGED <<timelineVars, libVars, serviceVars>>

\* ---- actions: worker ----------------------------------------------------
WorkerReceive ==
  \E k \in WorkerIds, empty \in BOOLEAN :
    /\ Alive(k)
    /\ workers[k].inbox # <<>>
    /\ Store(workerListener(World, k, empty))

TransformersImported ==
  \E k \in WorkerIds, c \in CallIds, ok, empty \in BOOLEAN :
    /\ Alive(k) /\ JobAt(k, c, "import")
    /\ Store(importFinish(World, k, c, ok, empty))

ModelProgress ==
  \E k \in WorkerIds, c \in CallIds, st \in {"downloading", "loading"}, pr \in LoadProgress :
    /\ Alive(k) /\ JobAt(k, c, "loading")
    /\ Len(workers[k].outbox) < MaxOutbox
    /\ Store(Post(World, k, UpdateMsg(st, pr, c)))

ModelLoaded ==
  \E k \in WorkerIds, c \in CallIds, ok \in BOOLEAN :
    /\ Alive(k) /\ JobAt(k, c, "loading")
    /\ Store(loadFinish(World, k, c, ok))

StreamText ==
  \E k \in WorkerIds, c \in CallIds, pr \in StreamProgress :
    /\ Alive(k) /\ JobAt(k, c, "transcribing")
    /\ Len(workers[k].outbox) < MaxOutbox
    /\ Store(Post(World, k, UpdateMsg("transcribing", pr, c)))

InferenceDone ==
  \E k \in WorkerIds, c \in CallIds, ok \in BOOLEAN :
    /\ Alive(k) /\ JobAt(k, c, "transcribing")
    /\ Store(inferenceFinish(World, k, c, ok))

\* ---- ASRPipelineFactory ---------------------------------------------------
\* the factory's static fields and the pipelines that exist
Factory ==
  [instance |-> instance, currentModel |-> currentModel,
   pipelines |-> pipelines, gets |-> gets]

NextGet(f) == 1 + Cardinality({g \in GetIds : f.gets[g].pc # "none"})

\* getInstance from `this.currentModel = model` to the await on pipeline()
constructStart(f, g) ==
  [f EXCEPT !.currentModel = f.gets[g].model,
            !.gets[g].pc = "constructing"]

\* getInstance constructing the new pipeline without disposing the old one
getInstanceNoDispose(f, model) ==
  LET g == NextGet(f)
      f1 == [f EXCEPT !.gets[g] = [NoGet EXCEPT !.model = model,
                                                !.target = f.instance]]
  IN IF f.instance = 0 \/ f.currentModel # model
     THEN constructStart(f1, g)
     ELSE [f1 EXCEPT !.gets[g].pc = "returned", !.gets[g].result = f.instance]

\* getInstance(model) up to its first suspension
getInstance(f, model) ==
  LET g == NextGet(f)
      f1 == [f EXCEPT !.gets[g] = [NoGet EXCEPT !.model = model]]
  IN IF f.instance = 0 \/ f.currentModel # model
     THEN IF f.instance # 0
          THEN [f1 EXCEPT !.gets[g].pc = "disposing",
                          !.gets[g].target = f.instance,
                          !.pipelines[f.instance].state =
                             IF @ = "live" THEN "disposing" ELSE @]
          ELSE constructStart(f1, g)
     ELSE [f1 EXCEPT !.gets[g].pc = "returned", !.gets[g].result = f.instance]

\* after `await this.instance.dispose()`; ok: dispose() did not throw
disposeFinish(f, g, ok) ==
  LET x == f.gets[g].target
      f1 == [f EXCEPT !.pipelines[x].state =
                        IF @ = "disposing"
                        THEN (IF ok THEN "disposed" ELSE "disposeFailed")
                        ELSE @,
                      !.instance = 0]
  IN constructStart(f1, g)

\* after `await pipeline(...)`; ok: the pipeline was constructed
constructFinish(f, g, ok) ==
  IF ok
  THEN LET p == Len(f.pipelines) + 1
       IN [f EXCEPT !.pipelines = Append(@, [model |-> f.gets[g].model,
                                             state |-> "live",
                                             options |-> PipelineOptions(f.gets[g].model)]),
                    !.instance = p,
                    !.gets[g].pc = "returned",
                    !.gets[g].result = p]
  ELSE [f EXCEPT !.gets[g].pc = "threw"]

SetFactory(f) ==
  /\ instance' = f.instance
  /\ currentModel' = f.currentModel
  /\ pipelines' = f.pipelines
  /\ gets' = f.gets
  /\ UNCHANGED <<storeVars, timelineVars, libVars, serviceVars>>

GetInstance ==
  \E model \in GetModels :
    /\ NextGet(Factory) <= MaxGets
    /\ SetFactory(getInstance(Factory, model))

Disposed ==
  \E g \in GetIds, ok \in BOOLEAN :
    /\ gets[g].pc = "disposing"
    /\ SetFactory(disposeFinish(Factory, g, ok))

Constructed ==
  \E g \in GetIds, ok \in BOOLEAN :
    /\ gets[g].pc = "constructing"
    /\ SetFactory(constructFinish(Factory, g, ok))

\* ---- transcript.ts ------------------------------------------------------
\* Numbers are fixed-point, 1000 standing for 1.0, so that 2.5 s is 2500 and
\* 2500 ms is 2500000. A text is the sequence of its characters, " " standing
\* for any white space.
Max(a, b) == IF a >= b THEN a ELSE b

RECURSIVE TrimStart(_)
TrimStart(t) == IF t # <<>> /\ Head(t) = " " THEN TrimStart(Tail(t)) ELSE t

RECURSIVE TrimEnd(_)
TrimEnd(t) ==
  IF t # <<>> /\ t[Len(t)] = " " THEN TrimEnd(SubSeq(t, 1, Len(t) - 1)) ELSE t

\* String.prototype.trim
trim(t) == TrimEnd(TrimStart(t))

RECURSIVE SplitFrom(_, _, _)
SplitFrom(t, cur, out) ==
  IF t = <<>> THEN Append(out, cur)
  ELSE IF Head(t) = " " THEN SplitFrom(TrimStart(t), <<>>, Append(out, cur))
  ELSE SplitFrom(Tail(t), Append(cur, Head(t)), out)

\* String.prototype.split(/\s+/): the empty text gives one empty word
split(t) == SplitFrom(t, <<>>, <<>>)

\* a word of the engine output as a TranscriptWord (seconds to milliseconds)
ToTranscriptWord(word) ==
  [text |-> word.text,
   startTime |-> word.timestamp[1] * 1000,
   endTime |-> word.timestamp[2] * 1000]

\* the words estimated from a chunk's text; the quotient is exact for the
\* texts and durations drawn here
FallbackWords(chunk, startTime, endTime) ==
  LET words == split(trim(chunk.text))
      wordDuration == (endTime - startTime) \div Len(words)
  IN [index \in 1..Len(words) |->
        [text |-> words[index],
         startTime |-> startTime + ((index - 1) * wordDuration),
         endTime |-> startTime + (index * wordDuration)]]

\* ToTranscriptChunk preferring the output's flat word list to the chunk's own
ToTranscriptChunkFlatFirst(output, chunk) ==
  LET startTime == chunk.timestamp[1] * 1000
      endTime == chunk.timestamp[2] * 1000
      transcriptWords ==
        IF Len(output.words) > 0
        THEN LET kept == SelectSeq(output.words,
                           LAMBDA word : /\ word.timestamp[1] * 1000 >= startTime
                                         /\ word.timestamp[1] * 1000 <= endTime)
             IN [i \in DOMAIN kept |-> ToTranscriptWord(kept[i])]
        ELSE IF Len(chunk.words) > 0
        THEN [i \in DOMAIN chunk.words |-> ToTranscriptWord(chunk.words[i])]
        ELSE FallbackWords(chunk, startTime, endTime)
  IN [words |-> transcriptWords, startTime |-> startTime, endTime |-> endTime,
      text |-> trim(chunk.text)]

\* the callback of whisperOutput.chunks.map
ToTranscriptChunk(output, chunk) ==
  LET startTime == chunk.timestamp[1] * 1000
      endTime == chunk.timestamp[2] * 1000
      transcriptWords ==
        IF Len(chunk.words) > 0
        THEN [i \in DOMAIN chunk.words |-> ToTranscriptWord(chunk.words[i])]
        ELSE IF Len(output.words) > 0
        THEN LET kept == SelectSeq(output.words,
                           LAMBDA word : /\ word.timestamp[1] * 1000 >= startTime
                                         /\ word.timestamp[1] * 1000 <= endTime)
             IN [i \in DOMAIN kept |-> ToTranscriptWord(kept[i])]
        ELSE FallbackWords(chunk, startTime, endTime)
  IN [words |-> transcriptWords, startTime |-> startTime, endTime |-> endTime,
      text |-> trim(chunk.text)]

RECURSIVE MaxEndTime(_)
MaxEndTime(chunks) ==
  IF Len(chunks) = 1 THEN chunks[1].endTime
  ELSE Max(chunks[1].endTime, MaxEndTime(Tail(chunks)))

createTranscriptFromWhisperOutput(output) ==
  LET chunks == [i \in DOMAIN output.chunks |-> ToTranscriptChunk(output, output.chunks[i])]
  IN [chunks |-> chunks,
      language |-> "en",
      totalDuration |-> IF Len(chunks) > 0 THEN MaxEndTime(chunks) ELSE 0]

\* engine outputs
SeqsUpTo(S, n) == UNION {[1..k -> S] : k \in 0..n}
Chars == {"a", " "}
Texts == SeqsUpTo(Chars, MaxTextLen)
TranscriptTimes == {0, 2000, 3000}
WhisperWord(txt, s, e) == [text |-> txt, timestamp |-> <<s, e>>]
WordLists ==
  {<<>>, <<WhisperWord(<<"a">>, 0, 1000)>>,
   <<WhisperWord(<<"a">>, 0, 1000), WhisperWord(<<"b">>, 2000, 3000)>>}
WhisperChunks ==
  {[timestamp |-> <<s, e>>, text |-> t, words |-> ws] :
     s \in TranscriptTimes, e \in TranscriptTimes, t \in Texts, ws \in WordLists}
WhisperOutputs ==
  {[chunks |-> cs, words |-> ws] :
     cs \in {c \in SeqsUpTo(WhisperChunks, MaxChunks) :
               \A i \in DOMAIN c : c[i].timestamp[1] <= c[i].timestamp[2]},
     ws \in WordLists}
NoOutput == [chunks |-> <<>>, words |-> <<>>]

CreateTranscript ==
  /\ transcript = <<>>
  /\ transcript' = createTranscriptFromWhisperOutput(whisperOutput)
  /\ UNCHANGED <<serviceVars, storeVars, factoryVars, timelineVars, whisperOutput, srtVars, audioVars>>

\* ---- insertResultToTimeline ---------------------------------------------
Modes == {"sentences", "words"}

\* name: `Subtitle n: ...` or `Word n: ...`, kept as the kind and the number
TextElement(name, content, startTime, duration) ==
  [name |-> name, content |-> content, startTime |-> startTime, duration |-> duration]

\* chunks.forEach(chunk => chunk.words.forEach(...)): the words in visiting order
RECURSIVE WordsOf(_)
WordsOf(chunks) ==
  IF chunks = <<>> THEN <<>> ELSE Head(chunks).words \o WordsOf(Tail(chunks))

\* textElements as built before the overlap resolution
CandidateElements(result, mode, timelineOffset) ==
  IF mode = "words"
  THEN LET words == WordsOf(result.transcript.chunks)
       IN [n \in DOMAIN words |->
             LET startTime == timelineOffset + (words[n].startTime \div 1000)
                 duration == (words[n].endTime - words[n].startTime) \div 1000
             IN TextElement(<<"Word", n>>, words[n].text, startTime, Max(duration, 500))]
  ELSE [n \in DOMAIN result.chunks |->
          LET chunk == result.chunks[n]
              duration == chunk.timestamp[2] - chunk.timestamp[1]
              startTime == timelineOffset + chunk.timestamp[1]
          IN TextElement(<<"Subtitle", n>>, trim(chunk.text), startTime,
                         Max(duration, 1000))]

RECURSIVE InsertByStartTime(_, _)
InsertByStartTime(sorted, el) ==
  IF sorted = <<>> THEN <<el>>
  ELSE IF el.startTime < Head(sorted).startTime THEN <<el>> \o sorted
  ELSE <<Head(sorted)>> \o InsertByStartTime(Tail(sorted), el)

RECURSIVE SortFrom(_, _)
SortFrom(els, sorted) ==
  IF els = <<>> THEN sorted
  ELSE SortFrom(Tail(els), InsertByStartTime(sorted, Head(els)))

\* the elements left in the order they were built in
KeepOrder(els) == els

\* [...textElements].sort((a, b) => a.startTime - b.startTime), a stable sort
SortByStartTime(els) == SortFrom(els, <<>>)

\* the sorted elements passed on with their durations as they are
KeepDurations(sortedElements) == sortedElements

\* every element but the last made to end where the next one starts
StretchToNext(sortedElements) ==
  [i \in DOMAIN sortedElements |->
     IF i < Len(sortedElements)
     THEN [sortedElements[i] EXCEPT
             !.duration = sortedElements[i + 1].startTime - sortedElements[i].startTime]
     ELSE sortedElements[i]]

\* the loop that trims each element's duration to the start of the next
ResolveOverlaps(sortedElements) ==
  [i \in DOMAIN sortedElements |->
     LET current == sortedElements[i]
     IN IF i < Len(sortedElements)
           /\ current.startTime + current.duration > sortedElements[i + 1].startTime
        THEN [current EXCEPT !.duration = sortedElements[i + 1].startTime - current.startTime]
        ELSE current]

\* the timeline store's tracks and the results, as insertResultToTimeline
\* reads and writes them
Timeline == [results |-> results, tracks |-> tracks]

insertResultToTimeline(t, resultId, mode) ==
  IF ~\E n \in DOMAIN t.results : t.results[n].id = resultId THEN t
  ELSE IF getSelectedElementInfo = 0 THEN t
  ELSE
    LET result == t.results[CHOOSE n \in DOMAIN t.results : t.results[n].id = resultId]
        timelineOffset == elementStartTime
        textElements == CandidateElements(result, mode, timelineOffset)
        resolvedElements == ResolveOverlaps(SortByStartTime(textElements))
    IN [results |->
          [n \in DOMAIN t.results |->
             IF t.results[n].id = resultId
             THEN [t.results[n] EXCEPT !.chunks =
                     [k \in DOMAIN resolvedElements |->
                        [text |-> resolvedElements[k].content,
                         timestamp |-> <<resolvedElements[k].startTime,
                                         resolvedElements[k].startTime
                                           + resolvedElements[k].duration>>]]]
             ELSE t.results[n]],
        tracks |-> Append(t.tracks, resolvedElements)]

\* the record the 'complete' handler makes of the worker's result
TranscriptionResultOf(id, trackId, chunks) ==
  [id |-> id, trackId |-> trackId, chunks |-> chunks,
   transcript |-> createTranscriptFromWhisperOutput(
     [chunks |-> [n \in DOMAIN chunks |->
                    [timestamp |-> chunks[n].timestamp, text |-> chunks[n].text,
                     words |-> <<>>]],
      words |-> <<>>])]

\* the worker's formattedChunks: trimmed non-empty texts, start and end in seconds
TimelineTimes == {0, 2000, 2500, 3000, 4000, 5000}
ChunkTexts == {<<"a">>, <<"a", " ", "b">>}
FormattedChunks ==
  {[text |-> t, timestamp |-> <<s, e>>] :
     t \in ChunkTexts, s \in TimelineTimes, e \in TimelineTimes}
ElementStarts == {0, 10000}

InsertResultToTimeline ==
  \E n \in DOMAIN results, mode \in Modes :
    /\ Len(tracks) < MaxTracks
    /\ LET t == insertResultToTimeline(Timeline, results[n].id, mode)
       IN /\ results' = t.results
          /\ tracks' = t.tracks
    /\ UNCHANGED <<worker, isWorkerInitialized, initializationPromise, selectedModel,
                   modelConfig, processingStatus, selectedElements, hasWebGPU,
                   hasWASM, workers, inits, calls, elementStartTime>>
    /\ UNCHANGED <<factoryVars, libVars, serviceVars>>

\* ---- transcript.ts: SRT export -------------------------------------------
\* strings are sequences of characters; times are whole milliseconds

\* Number.prototype.toString of a non-negative integer
RECURSIVE toString(_)
toString(n) ==
  LET digit == <<"0", "1", "2", "3", "4", "5", "6", "7", "8", "9">>[(n % 10) + 1]
  IN IF n < 10 THEN <<digit>> ELSE toString(n \div 10) \o <<digit>>

RECURSIVE padStart(_, _, _)
padStart(str, targetLength, padString) ==
  IF Len(str) >= targetLength THEN str
  ELSE padStart(<<padString>> \o str, targetLength, padString)

\* the minutes taken from the whole time instead of from the rest of the hour
millisecondsToSRTTimeWholeMinutes(ms) ==
  LET hours == ms \div 3600000
      minutes == ms \div 60000
      seconds == (ms % 60000) \div 1000
      milliseconds == ms % 1000
  IN padStart(toString(hours), 2, "0") \o <<":">>
       \o padStart(toString(minutes), 2, "0") \o <<":">>
       \o padStart(toString(seconds), 2, "0") \o <<",">>
       \o padStart(toString(milliseconds), 3, "0")

millisecondsToSRTTime(ms) ==
  LET hours == ms \div 3600000
      minutes == (ms % 3600000) \div 60000
      seconds == (ms % 60000) \div 1000
      milliseconds == ms % 1000
  IN padStart(toString(hours), 2, "0") \o <<":">>
       \o padStart(toString(minutes), 2, "0") \o <<":">>
       \o padStart(toString(seconds), 2, "0") \o <<",">>
       \o padStart(toString(milliseconds), 3, "0")

\* Array.prototype.join
RECURSIVE join(_, _)
join(strs, separator) ==
  IF strs = <<>> THEN <<>>
  ELSE IF Len(strs) = 1 THEN strs[1]
  ELSE strs[1] \o separator \o join(Tail(strs), separator)

transcriptToSRT(t) ==
  LET segments == [index \in DOMAIN t.chunks |->
                     [index |-> index,
                      startTime |-> millisecondsToSRTTime(t.chunks[index].startTime),
                      endTime |-> millisecondsToSRTTime(t.chunks[index].endTime),
                      text |-> trim(t.chunks[index].text)]]
  IN join([n \in DOMAIN segments |->
             toString(segments[n].index) \o <<"\n">>
               \o segments[n].startTime \o <<" ", "-", "-", ">", " ">>
               \o segments[n].endTime \o <<"\n">>
               \o segments[n].text \o <<"\n">>],
          <<"\n">>)

\* the transcripts exported: trimmed texts, times that exercise every field
SrtTimes == {0, 999, 59999, 3600000, 3661001, 360000000}
SrtChunks ==
  {[text |-> t, startTime |-> s, endTime |-> e, words |-> <<>>] :
     t \in ChunkTexts, s \in SrtTimes, e \in SrtTimes}
NoTranscript == [chunks |-> <<>>, language |-> "en", totalDuration |-> 0]
SrtTranscripts ==
  {[chunks |-> c, language |-> "en",
    totalDuration |-> IF Len(c) > 0 THEN MaxEndTime(c) ELSE 0] :
     c \in SeqsUpTo(SrtChunks, MaxChunks)}

\* downloadSRT: the file saved holds transcriptToSRT(result.transcript)
DownloadSRT ==
  /\ downloads = <<>>
  /\ downloads' = Append(downloads, transcriptToSRT(srtTranscript))
  /\ UNCHANGED <<serviceVars, storeVars, factoryVars, timelineVars, transcriptVars, srtTranscript,
                 audioVars>>

\* ---- audio-extraction.ts -------------------------------------------------
\* times are thousandths of a second and sample values thousandths of full
\* scale; an AudioBuffer is its sample rate and the samples of channel 0

Min(a, b) == IF a < b THEN a ELSE b

AudioBuffer(sampleRate, channelData) ==
  [sampleRate |-> sampleRate, channelData |-> channelData]
NoBuffer == AudioBuffer(0, <<>>)

\* Math.floor(seconds * sampleRate)
ToSamples(seconds, sampleRate) == (seconds * sampleRate) \div 1000

trimAudioBuffer(audioBuffer, startSeconds, durationSeconds) ==
  LET sampleRate == audioBuffer.sampleRate
      length == Len(audioBuffer.channelData)
      startSample == ToSamples(startSeconds, sampleRate)
      durationSamples == ToSamples(durationSeconds, sampleRate)
      actualStartSample == Max(0, Min(startSample, length - 1))
      actualDurationSamples == Min(durationSamples, length - actualStartSample)
  IN IF actualDurationSamples <= 0
     THEN AudioBuffer(sampleRate, <<0>>)
     ELSE AudioBuffer(sampleRate,
                      [i \in 1..actualDurationSamples |->
                         audioBuffer.channelData[actualStartSample + i]])

\* decoded audio: sample n of media item m, never zero
SampleOf(m, n) == (IF m = 1 THEN 600 ELSE -500) + (100 * (n % 3))
Decoded(m, sampleRate, length) ==
  AudioBuffer(sampleRate, [n \in 1..length |-> SampleOf(m, n)])
SampleRates == {1, 2}
TrimSeconds == {-1000, 0, 500, 1000, 2000, 3000}
NoResampleCall == [inputData |-> <<>>, inputSampleRate |-> 0, targetSampleRate |-> 0]
NoTrimCall == [audioBuffer |-> NoBuffer, startSeconds |-> 0, durationSeconds |-> 0]
TrimCalls ==
  {[audioBuffer |-> Decoded(1, r, l), startSeconds |-> s, durationSeconds |-> d] :
     r \in SampleRates, l \in 0..MaxSamples,
     s \in TrimSeconds \ {-1000}, d \in TrimSeconds}

TrimAudioBuffer ==
  /\ trimCall # NoTrimCall
  /\ trimmedBuffer = NoBuffer
  /\ trimmedBuffer' = trimAudioBuffer(trimCall.audioBuffer, trimCall.startSeconds,
                                      trimCall.durationSeconds)
  /\ UNCHANGED <<serviceVars, storeVars, factoryVars, timelineVars, transcriptVars, srtVars,
                 trimCall, resampleCall, resampledData, audioElements, extractedAudio>>

\* the interpolation of resampleAudio for an output of outputLength samples:
\* sourceIndex = i * ratio is index + fraction with index = floor and
\* fraction = rest / targetSampleRate
Interpolate(inputData, inputSampleRate, targetSampleRate, outputLength) ==
  [n \in 1..outputLength |->
     LET i == n - 1
         index == (i * inputSampleRate) \div targetSampleRate
         rest == (i * inputSampleRate) % targetSampleRate
     IN IF index + 1 < Len(inputData)
        THEN ((inputData[index + 1] * (targetSampleRate - rest))
                + (inputData[index + 2] * rest)) \div targetSampleRate
        ELSE IF index < Len(inputData) THEN inputData[index + 1]
        ELSE 0]

\* the output given as many samples as the input has
resampleAudioSameLength(inputData, inputSampleRate, targetSampleRate) ==
  IF inputSampleRate = targetSampleRate THEN inputData
  ELSE Interpolate(inputData, inputSampleRate, targetSampleRate, Len(inputData))

\* outputLength = Math.floor(inputData.length / (inputSampleRate / targetSampleRate))
resampleAudio(inputData, inputSampleRate, targetSampleRate) ==
  IF inputSampleRate = targetSampleRate THEN inputData
  ELSE LET outputLength == (Len(inputData) * targetSampleRate) \div inputSampleRate
       IN Interpolate(inputData, inputSampleRate, targetSampleRate, outputLength)

\* sample values are multiples of 0.4 and rates powers of two, so that the
\* interpolated values are exact
ResampleRates == {1, 2, 4}
ResampleSamples == {-400, 0, 800}
ResampleCalls ==
  {[inputData |-> d, inputSampleRate |-> r, targetSampleRate |-> t] :
     d \in SeqsUpTo(ResampleSamples, MaxSamples), r \in ResampleRates, t \in ResampleRates}

ResampleAudio ==
  /\ resampleCall # NoResampleCall
  /\ resampledData = <<>>
  /\ resampledData' = <<resampleAudio(resampleCall.inputData, resampleCall.inputSampleRate,
                                      resampleCall.targetSampleRate)>>
  /\ UNCHANGED <<serviceVars, storeVars, factoryVars, timelineVars, transcriptVars, srtVars,
                 trimCall, trimmedBuffer, resampleCall, audioElements, extractedAudio>>

\* ---- audio extraction: the track and the selected element ----------------
\* what a call returned or threw
NotCalled ==
  [outcome |-> "none", error |-> "", audioData |-> <<>>, sampleRate |-> 0,
   duration |-> 0, timelineOffset |-> 0]
Thrown(message) == [NotCalled EXCEPT !.outcome = "thrown", !.error = message]
Returned(audioData, sampleRate, duration, timelineOffset) ==
  [outcome |-> "returned", error |-> "", audioData |-> audioData,
   sampleRate |-> sampleRate, duration |-> duration, timelineOffset |-> timelineOffset]
NoExtraction == [track |-> NotCalled, element |-> NotCalled]

ErrNoElements == "No audio elements found in track"
ErrNoSegments == "No audio segments could be processed"
ErrDecode == "Failed to decode audio file"
ErrDuration == "Failed to extract audio: Invalid audio duration after trimming"
ErrNoSamples == "Failed to extract audio: No audio samples to extract - check trim values"
ErrLength == "Invalid typed array length"

\* the rate the element's audio is resampled to (16000 Hz), in the unit in
\* which the decoded rates are 1 and 2
targetSampleRate == 2

EffectiveDuration(element) == element.duration - element.trimStart - element.trimEnd

\* seconds held by a decoded buffer: AudioBuffer.duration
BufferDuration(audioBuffer) ==
  (Len(audioBuffer.channelData) * 1000) \div audioBuffer.sampleRate

\* extractAudioFromElement of the store
extractAudioFromElement(element, mediaItem) ==
  IF ~mediaItem.file THEN Thrown(ErrNoFile)
  ELSE IF ~mediaItem.decodes THEN Thrown(ErrExtract)
  ELSE
    LET audioBuffer == mediaItem.audioBuffer
        startSeconds == element.trimStart
        durationSeconds ==
          (IF element.duration # 0 THEN element.duration ELSE BufferDuration(audioBuffer))
            - element.trimStart - element.trimEnd
        sampleRate == audioBuffer.sampleRate
        length == Len(audioBuffer.channelData)
        startSample == ToSamples(startSeconds, sampleRate)
        durationSamples == ToSamples(durationSeconds, sampleRate)
        actualStartSample == Max(0, Min(startSample, length - 1))
        actualDurationSamples == Min(durationSamples, length - actualStartSample)
        extractedData == [i \in 1..actualDurationSamples |->
                            audioBuffer.channelData[actualStartSample + i]]
    IN IF durationSeconds <= 0 THEN Thrown(ErrDuration)
       ELSE IF actualDurationSamples <= 0 THEN Thrown(ErrNoSamples)
       ELSE Returned(IF sampleRate # targetSampleRate
                     THEN resampleAudio(extractedData, sampleRate, targetSampleRate)
                     ELSE extractedData,
                     targetSampleRate, 0, 0)

\* .sort((a, b) => a.element.startTime - b.element.startTime), a stable sort
RECURSIVE InsertElement(_, _)
InsertElement(sorted, el) ==
  IF sorted = <<>> THEN <<el>>
  ELSE IF el.element.startTime < Head(sorted).element.startTime THEN <<el>> \o sorted
  ELSE <<Head(sorted)>> \o InsertElement(Tail(sorted), el)

RECURSIVE SortElementsFrom(_, _)
SortElementsFrom(els, sorted) ==
  IF els = <<>> THEN sorted
  ELSE SortElementsFrom(Tail(els), InsertElement(sorted, Head(els)))

\* track.elements filtered to media elements with an audio or video item
AudioElementsOf(elements) ==
  SortElementsFrom(SelectSeq(elements, LAMBDA e : e.mediaItem.type # "image"), <<>>)

RECURSIVE TrackEndTime(_)
TrackEndTime(els) ==
  LET end == els[1].element.startTime + EffectiveDuration(els[1].element)
  IN IF Len(els) = 1 THEN end ELSE Max(end, TrackEndTime(Tail(els)))

\* the loop over audioElements: the segments pushed, in order
RECURSIVE AudioSegments(_)
AudioSegments(els) ==
  IF els = <<>> THEN <<>>
  ELSE LET element == Head(els).element
           mediaItem == Head(els).mediaItem
           effectiveDuration == EffectiveDuration(element)
       IN IF mediaItem.file /\ mediaItem.decodes /\ effectiveDuration > 0
          THEN <<[audioBuffer |-> trimAudioBuffer(mediaItem.audioBuffer, element.trimStart,
                                                  effectiveDuration),
                  startTime |-> element.startTime,
                  duration |-> effectiveDuration]>> \o AudioSegments(Tail(els))
          ELSE AudioSegments(Tail(els))

\* a segment written over the output instead of added to it
MixSegmentReplace(outputData, segment, sampleRate) ==
  LET startSample == ToSamples(segment.startTime, sampleRate)
      segmentData == segment.audioBuffer.channelData
      copyLength == Min(Len(segmentData), Len(outputData) - startSample)
  IN [p \in DOMAIN outputData |->
        IF p - 1 >= startSample /\ p - 1 < startSample + copyLength
        THEN segmentData[p - startSample]
        ELSE outputData[p]]

\* outputData[startSample + i] += segmentData[i] for i < copyLength
MixSegment(outputData, segment, sampleRate) ==
  LET startSample == ToSamples(segment.startTime, sampleRate)
      segmentData == segment.audioBuffer.channelData
      copyLength == Min(Len(segmentData), Len(outputData) - startSample)
  IN [p \in DOMAIN outputData |->
        IF p - 1 >= startSample /\ p - 1 < startSample + copyLength
        THEN outputData[p] + segmentData[p - startSample]
        ELSE outputData[p]]

RECURSIVE MixSegments(_, _, _)
MixSegments(outputData, segments, sampleRate) ==
  IF segments = <<>> THEN outputData
  ELSE MixSegments(MixSegment(outputData, Head(segments), sampleRate),
                   Tail(segments), sampleRate)

Abs(x) == IF x < 0 THEN -x ELSE x

RECURSIVE MaxAmplitude(_)
MaxAmplitude(audioData) ==
  IF audioData = <<>> THEN 0
  ELSE Max(Abs(Head(audioData)), MaxAmplitude(Tail(audioData)))

\* audioData[i] *= 0.95 / maxAmplitude when the peak exceeds 1.0
normalizeAudio(audioData) ==
  LET maxAmplitude == MaxAmplitude(audioData)
  IN IF maxAmplitude > 1000
     THEN [i \in DOMAIN audioData |->
             IF audioData[i] < 0 THEN -((Abs(audioData[i]) * 950) \div maxAmplitude)
             ELSE (audioData[i] * 950) \div maxAmplitude]
     ELSE audioData

concatenateAudioSegments(segments, totalDuration) ==
  LET sampleRate == segments[1].audioBuffer.sampleRate
      totalSamples == ToSamples(totalDuration, sampleRate)
  IN IF totalSamples < 0 THEN Thrown(ErrLength)
     ELSE Returned(normalizeAudio(MixSegments([p \in 1..totalSamples |-> 0],
                                              segments, sampleRate)),
                   sampleRate, totalDuration, 0)

\* a decode failure passed on to the caller instead of being caught
extractAudioFromTrackFatal(elements) ==
  LET audioEls == AudioElementsOf(elements)
      audioSegments == AudioSegments(audioEls)
  IN IF audioEls = <<>> THEN Thrown(ErrNoElements)
     ELSE IF \E n \in DOMAIN audioEls :
               audioEls[n].mediaItem.file /\ ~audioEls[n].mediaItem.decodes
          THEN Thrown(ErrDecode)
     ELSE IF audioSegments = <<>> THEN Thrown(ErrNoSegments)
     ELSE [concatenateAudioSegments(audioSegments, TrackEndTime(audioEls))
             EXCEPT !.timelineOffset = audioSegments[1].startTime]

extractAudioFromTrack(elements) ==
  LET audioEls == AudioElementsOf(elements)
      audioSegments == AudioSegments(audioEls)
  IN IF audioEls = <<>> THEN Thrown(ErrNoElements)
     ELSE IF audioSegments = <<>> THEN Thrown(ErrNoSegments)
     ELSE [concatenateAudioSegments(audioSegments, TrackEndTime(audioEls))
             EXCEPT !.timelineOffset = audioSegments[1].startTime]

\* track elements: where they start, how long they are, how they are
\* trimmed, and whether their media item has a file that decodes
ElementTimes == {0, 3000}
ElementDurations == {1000, 4000, 5000}
ElementTrims == {0, 1000, 5000}
MediaKinds == {"ok", "nofile", "undecodable", "image"}
TrackElements(sampleRate) ==
  {[element |-> [startTime |-> st, duration |-> d, trimStart |-> ts, trimEnd |-> te],
    mediaItem |-> [type |-> IF k = "image" THEN "image" ELSE "audio",
                   file |-> k # "nofile",
                   decodes |-> k \notin {"undecodable", "image"},
                   audioBuffer |-> Decoded(m, sampleRate, MaxSamples)]] :
     st \in ElementTimes, d \in ElementDurations, ts \in ElementTrims,
     te \in {0, 1000}, k \in MediaKinds, m \in {1}}

ExtractAudioFromTrack ==
  /\ extractedAudio.track = NotCalled
  /\ extractedAudio' = [extractedAudio EXCEPT !.track = extractAudioFromTrack(audioElements)]
  /\ UNCHANGED <<serviceVars, storeVars, factoryVars, timelineVars, transcriptVars, srtVars,
                 trimCall, trimmedBuffer, resampleCall, resampledData, audioElements>>

\* the selected element is the first of the track, when it is an audio or
\* video element (getSelectedElementInfo)
ExtractAudioFromElement ==
  /\ extractedAudio.element = NotCalled
  /\ audioElements # <<>>
  /\ audioElements[1].mediaItem.type # "image"
  /\ extractedAudio' =
       [extractedAudio EXCEPT !.element =
          extractAudioFromElement(audioElements[1].element, audioElements[1].mediaItem)]
  /\ UNCHANGED <<serviceVars, storeVars, factoryVars, timelineVars, transcriptVars, srtVars,
                 trimCall, trimmedBuffer, resampleCall, resampledData, audioElements>>

\* ---- speech-to-text worker: the streamer of a transcribe call -------------
\* Times are thousandths of a second and Null stands for null. The tokens per
\* second figure (tps) is wall-clock timing and is left out of the messages.
Null == -1

\* the locals of transcribe() that the streamer's callbacks close over, and
\* the messages posted for the call
NoTranscribe ==
  [pc |-> "none", isDistilWhisper |-> FALSE, chunks |-> <<>>, chunk_count |-> 0,
   posted |-> <<>>]

chunk_length_s(t) == IF t.isDistilWhisper THEN 20000 ELSE 30000
stride_length_s(t) == IF t.isDistilWhisper THEN 3000 ELSE 5000

on_chunk_start(t, x) ==
  LET offset == (chunk_length_s(t) - stride_length_s(t)) * t.chunk_count
  IN [t EXCEPT !.chunks = Append(@, [text |-> <<>>,
                                     timestamp |-> <<offset + x, Null>>,
                                     finalised |-> FALSE,
                                     offset |-> offset])]

\* chunks.filter(c => c.finalised)
Finalised(chunks) == SelectSeq(chunks, LAMBDA c : c.finalised)

callback_function(t, text) ==
  IF Len(t.chunks) = 0 THEN t
  ELSE LET n == Len(t.chunks)
           lastChunk == [t.chunks[n] EXCEPT !.text = @ \o text]
           chunks1 == [t.chunks EXCEPT ![n] = lastChunk]
           estimatedProgress == Min(95, (t.chunk_count * 15) + (Len(chunks1) * 5))
       IN [t EXCEPT !.chunks = chunks1,
                    !.posted = Append(@, [status |-> "update",
                                          stage |-> "transcribing",
                                          progress |-> estimatedProgress,
                                          chunks |-> Finalised(chunks1),
                                          currentText |-> lastChunk.text])]

on_chunk_end(t, x) ==
  IF Len(t.chunks) = 0 THEN t
  ELSE LET n == Len(t.chunks)
       IN [t EXCEPT !.chunks[n].timestamp[2] = x + t.chunks[n].offset,
                    !.chunks[n].finalised = TRUE]

on_finalize(t) == [t EXCEPT !.chunk_count = @ + 1]

\* formattedChunks without the test of `finalised`
formattedChunksOfAll(chunks) ==
  LET kept == SelectSeq(chunks, LAMBDA c : trim(c.text) # <<>>)
  IN [n \in DOMAIN kept |->
        LET startTime == kept[n].timestamp[1]
            endTime == IF kept[n].timestamp[2] \in {Null, 0}
                       THEN startTime ELSE kept[n].timestamp[2]
        IN [text |-> trim(kept[n].text), timestamp |-> <<startTime, endTime>>]]

\* chunks.filter(chunk => chunk.finalised && chunk.text.trim()).map(...)
formattedChunks(chunks) ==
  LET kept == SelectSeq(chunks, LAMBDA c : c.finalised /\ trim(c.text) # <<>>)
  IN [n \in DOMAIN kept |->
        LET startTime == kept[n].timestamp[1]
            endTime == IF kept[n].timestamp[2] \in {Null, 0}
                       THEN startTime ELSE kept[n].timestamp[2]
        IN [text |-> trim(kept[n].text), timestamp |-> <<startTime, endTime>>]]

\* transcribe after `await transcriber(audio, transcriptionOptions)` and the
\* listener's answer; output: "threw", "none" (a falsy output) or "output"
transcribeFinish(t, output) ==
  IF output = "output"
  THEN [t EXCEPT !.pc = "returned",
                 !.posted = Append(@, [status |-> "complete",
                                       chunks |-> formattedChunks(t.chunks)])]
  ELSE [t EXCEPT !.pc = "threw",
                 !.posted = Append(@, [status |-> "error", message |-> ErrTranscribe])]

MaxStreamChunks == 2   \* chunks the streamer opens
MaxWindows == 2        \* windows the engine finalizes
MaxUpdates == 2        \* texts the streamer delivers
StreamTimes == {0, 2000}

SetTranscribe(t) ==
  /\ transcribeCall' = t
  /\ UNCHANGED <<storeVars, factoryVars, timelineVars, libVars,
                 jobs, tts, ttsWorker, ttsCalls>>

Streaming == transcribeCall.pc = "streaming"

OnChunkStart ==
  \E x \in StreamTimes :
    /\ Streaming
    /\ Len(transcribeCall.chunks) < MaxStreamChunks
    /\ SetTranscribe(on_chunk_start(transcribeCall, x))

CallbackFunction ==
  \E c \in Chars :
    /\ Streaming
    /\ Len(transcribeCall.posted) < MaxUpdates
    /\ SetTranscribe(callback_function(transcribeCall, <<c>>))

OnChunkEnd ==
  \E x \in StreamTimes :
    /\ Streaming
    /\ SetTranscribe(on_chunk_end(transcribeCall, x))

OnFinalize ==
  /\ Streaming
  /\ transcribeCall.chunk_count < MaxWindows
  /\ SetTranscribe(on_finalize(transcribeCall))

TranscriberReturns ==
  \E output \in {"threw", "none", "output"} :
    /\ Streaming
    /\ SetTranscribe(transcribeFinish(transcribeCall, output))

\* ---- speech-to-text worker: jobs and the model singleton ------------------
\* what a job message carries as audio; its model is "" when none is named
Audios == {"missing", "empty", "samples"}
JobModels == {""} \cup GetModels
NoJob == [audio |-> "none", get |-> 0]

\* the worker's side of the world: the listener's jobs, the factory, and the
\* getInstance call of each job
JobWorld == [w |-> World, f |-> Factory, jobs |-> jobs]

\* transcribe resuming from `await ASRPipelineFactory.getInstance(...)`
AfterGet(j, k, c) ==
  LET g == j.jobs[c].get
  IN IF j.f.gets[g].pc = "returned" THEN [j EXCEPT !.w = loadFinish(j.w, k, c, TRUE)]
     ELSE IF j.f.gets[g].pc = "threw" THEN [j EXCEPT !.w = loadFinish(j.w, k, c, FALSE)]
     ELSE j

\* transcribe calling ASRPipelineFactory.getInstance(model, ...) once the
\* message has passed its checks
transcribeLoad(j, k, c) ==
  IF j.w.calls[c].job = "loading" /\ j.jobs[c].get = 0
  THEN AfterGet([j EXCEPT !.f = getInstance(j.f, j.w.calls[c].model),
                          !.jobs[c].get = NextGet(j.f)], k, c)
  ELSE j

SetJob(j) ==
  /\ Commit(j.w)
  /\ instance' = j.f.instance
  /\ currentModel' = j.f.currentModel
  /\ pipelines' = j.f.pipelines
  /\ gets' = j.f.gets
  /\ jobs' = j.jobs
  /\ UNCHANGED <<selectedElements, hasWebGPU, hasWASM, timelineVars, libVars,
                 transcribeCall, tts, ttsWorker, ttsCalls>>

JobReceive ==
  \E k \in WorkerIds :
    /\ Alive(k)
    /\ workers[k].inbox # <<>>
    /\ LET c == Head(workers[k].inbox).job
       IN SetJob(transcribeLoad(
            [JobWorld EXCEPT !.w = workerListener(World, k, jobs[c].audio # "samples")],
            k, c))

JobImported ==
  \E k \in WorkerIds, c \in CallIds, ok \in BOOLEAN :
    /\ Alive(k) /\ JobAt(k, c, "import")
    /\ SetJob(transcribeLoad(
         [JobWorld EXCEPT !.w = importFinish(World, k, c, ok, jobs[c].audio # "samples")],
         k, c))

JobDisposed ==
  \E g \in GetIds, ok \in BOOLEAN :
    /\ gets[g].pc = "disposing"
    /\ SetJob([JobWorld EXCEPT !.f = disposeFinish(Factory, g, ok)])

JobConstructed ==
  \E k \in WorkerIds, c \in CallIds, ok \in BOOLEAN :
    /\ Alive(k) /\ JobAt(k, c, "loading")
    /\ jobs[c].get # 0
    /\ gets[jobs[c].get].pc = "constructing"
    /\ SetJob(AfterGet([JobWorld EXCEPT !.f = constructFinish(Factory, jobs[c].get, ok)],
                       k, c))

\* ---- KokoroTTSService -----------------------------------------------------
\* The service's onStatusChange is 0 (null) or the number of a callback in
\* `callbacks`: each callback is the arrow function made by one initialize or
\* generateSpeech call, with the originalCallback it closed over. The
\* statusCallback a caller hands to initialize changes nothing in the service
\* and is left out, so the originalCallback of initialize's callback is 0.
MaxTtsCalls == 3       \* initialize and generateSpeech calls together
SpeechTexts == {"a", "b"}
Voices == <<"af_heart">>
ErrNotInitialized == "TTS service not initialized"
ErrModel == "Failed to load model"
ErrWorker == "Worker failed to initialize"
ErrGenerate == "Failed to generate"

\* the service as constructed
NewService ==
  [initialized |-> FALSE, isInitializing |-> FALSE, voices |-> <<>>, device |-> "",
   onStatusChange |-> 0, callbacks |-> <<>>]

NoTtsWorker == [pc |-> "none", device |-> "", requests |-> <<>>, outbox |-> <<>>]

TtsCall(kind, state, text) ==
  [kind |-> kind, state |-> state, text |-> text, value |-> "", error |-> ""]

\* the service, its worker and the promises its methods have returned
Tts == [service |-> tts, worker |-> ttsWorker, calls |-> ttsCalls]

\* resolve(value) and reject(error): a promise settles once
Resolve(s, p, value) ==
  IF s.calls[p].state = "pending"
  THEN [s EXCEPT !.calls[p].state = "resolved", !.calls[p].value = value]
  ELSE s

Reject(s, p, error) ==
  IF s.calls[p].state = "pending"
  THEN [s EXCEPT !.calls[p].state = "rejected", !.calls[p].error = error]
  ELSE s

\* the callback numbered cb called with (status, data)
RECURSIVE Callback(_, _, _, _)
Callback(s, cb, status, data) ==
  IF cb = 0 THEN s
  ELSE LET originalCallback == s.service.callbacks[cb].originalCallback
           p == s.service.callbacks[cb].call
           s1 == Callback(s, originalCallback, status, data)
       IN IF s.service.callbacks[cb].kind = "initialize"
          THEN IF status = "ready" THEN Resolve(s1, p, "")
               ELSE IF status = "error" THEN Reject(s1, p, data.error)
               ELSE s1
          ELSE IF status = "complete"
               THEN Resolve([s1 EXCEPT !.service.onStatusChange = originalCallback],
                            p, data.audio)
               ELSE IF status = "error"
               THEN Reject([s1 EXCEPT !.service.onStatusChange = originalCallback],
                           p, data.error)
               ELSE s1

\* if (this.onStatusChange) this.onStatusChange(status, data)
StatusChange(s, status, data) == Callback(s, s.service.onStatusChange, status, data)

handleWorkerMessage(s, m) ==
  IF m.status = "device"
  THEN StatusChange([s EXCEPT !.service.device = m.device], "device", m)
  ELSE IF m.status = "ready"
  THEN StatusChange([s EXCEPT !.service.initialized = TRUE,
                              !.service.isInitializing = FALSE,
                              !.service.voices = m.voices], "ready", m)
  ELSE IF m.status = "complete"
  THEN StatusChange(s, "complete", [audio |-> m.audio, text |-> m.text])
  ELSE StatusChange([s EXCEPT !.service.isInitializing = FALSE], "error", m)

\* worker.onerror
onWorkerError(s) == StatusChange(s, "error", [error |-> ErrWorker])

\* initialize(); a caller that joins polls with checkReady
initialize(s) ==
  LET p == Len(s.calls) + 1
  IN IF s.service.initialized
     THEN [s EXCEPT !.calls = Append(@, TtsCall("initialize", "resolved", ""))]
     ELSE IF s.service.isInitializing
     THEN [s EXCEPT !.calls = Append(@, TtsCall("initialize", "polling", ""))]
     ELSE [s EXCEPT !.calls = Append(@, TtsCall("initialize", "pending", "")),
                    !.service.isInitializing = TRUE,
                    !.service.callbacks =
                       Append(@, [kind |-> "initialize", call |-> p,
                                  originalCallback |-> 0]),
                    !.service.onStatusChange = Len(s.service.callbacks) + 1]

\* checkReady, run by initialize and then every 100 ms
checkReady(s, p) ==
  IF s.service.initialized THEN [s EXCEPT !.calls[p].state = "resolved"] ELSE s

generateSpeech(s, text) ==
  LET p == Len(s.calls) + 1
  IN IF ~s.service.initialized
     THEN [s EXCEPT !.calls = Append(@, [TtsCall("generateSpeech", "rejected", text)
                                           EXCEPT !.error = ErrNotInitialized])]
     ELSE [s EXCEPT !.calls = Append(@, TtsCall("generateSpeech", "pending", text)),
                    !.service.callbacks =
                       Append(@, [kind |-> "generateSpeech", call |-> p,
                                  originalCallback |-> s.service.onStatusChange]),
                    !.service.onStatusChange = Len(s.service.callbacks) + 1,
                    !.worker.requests = Append(@, text)]

\* ---- tts worker -----------------------------------------------------------
TtsPost(s, m) == [s EXCEPT !.worker.outbox = Append(@, m)]

\* the audio the model generates for a text
AudioOf(text) == text

\* the module up to `await KokoroTTS.from_pretrained(...)`
deviceDetected(s, device) ==
  TtsPost([s EXCEPT !.worker.pc = "loading", !.worker.device = device],
          [status |-> "device", device |-> device])

\* the rest of the module; when the load fails the module throws after its
\* 'error' message, and errorEvent tells whether the Worker object then gets
\* an error event
modelLoaded(s, ok, errorEvent) ==
  IF ok
  THEN TtsPost([s EXCEPT !.worker.pc = "ready"],
               [status |-> "ready", voices |-> Voices, device |-> s.worker.device])
  ELSE LET s1 == TtsPost([s EXCEPT !.worker.pc = "failed"],
                         [status |-> "error", error |-> ErrModel])
       IN IF errorEvent THEN TtsPost(s1, [status |-> "onerror"]) ELSE s1

\* the worker's message listener for the n-th request under way, after
\* `await tts.generate(text, { voice })`
generated(s, n, ok) ==
  LET text == s.worker.requests[n]
      s1 == [s EXCEPT !.worker.requests =
                         SubSeq(@, 1, n - 1) \o SubSeq(@, n + 1, Len(@))]
  IN IF ok
     THEN TtsPost(s1, [status |-> "complete", audio |-> AudioOf(text), text |-> text])
     ELSE TtsPost(s1, [status |-> "error", error |-> ErrGenerate])

SetTts(s) ==
  /\ tts' = s.service
  /\ ttsWorker' = s.worker
  /\ ttsCalls' = s.calls
  /\ UNCHANGED <<storeVars, factoryVars, timelineVars, libVars, transcribeCall, jobs>>

Initialize ==
  /\ Len(ttsCalls) < MaxTtsCalls
  /\ SetTts(initialize(Tts))

CheckReady ==
  \E p \in DOMAIN ttsCalls :
    /\ ttsCalls[p].state = "polling"
    /\ SetTts(checkReady(Tts, p))

GenerateSpeech ==
  \E text \in SpeechTexts :
    /\ Len(ttsCalls) < MaxTtsCalls
    /\ SetTts(generateSpeech(Tts, text))

TtsMessage ==
  /\ ttsWorker.outbox # <<>>
  /\ LET m == Head(ttsWorker.outbox)
         s == [Tts EXCEPT !.worker.outbox = Tail(@)]
     IN SetTts(IF m.status = "onerror" THEN onWorkerError(s)
               ELSE handleWorkerMessage(s, m))

TtsDeviceDetected ==
  \E device \in {"webgpu", "wasm"} :
    /\ ttsWorker.pc = "detecting"
    /\ SetTts(deviceDetected(Tts, device))

TtsModelLoaded ==
  \E ok, errorEvent \in BOOLEAN :
    /\ ttsWorker.pc = "loading"
    /\ SetTts(modelLoaded(Tts, ok, errorEvent))

TtsGenerated ==
  \E n \in DOMAIN ttsWorker.requests, ok \in BOOLEAN :
    /\ ttsWorker.pc = "ready"
    /\ SetTts(generated(Tts, n, ok))

\* ---- specification of the store and its worker --------------------------
ServiceIdle ==
  /\ transcribeCall = NoTranscribe
  /\ jobs = [c \in CallIds |-> NoJob]
  /\ tts = NewService
  /\ ttsWorker = NoTtsWorker
  /\ ttsCalls = <<>>

FactoryIdle ==
  /\ instance = 0
  /\ currentModel = ""
  /\ pipelines = <<>>
  /\ gets = [g \in GetIds |-> NoGet]

TimelineIdle ==
  /\ elementStartTime = 0
  /\ tracks = <<>>

TranscriptIdle ==
  /\ whisperOutput = NoOutput
  /\ transcript = <<>>
  /\ srtTranscript = NoTranscript
  /\ downloads = <<>>

AudioIdle ==
  /\ trimCall = NoTrimCall
  /\ trimmedBuffer = NoBuffer
  /\ resampleCall = NoResampleCall
  /\ resampledData = <<>>
  /\ audioElements = <<>>
  /\ extractedAudio = NoExtraction

Init ==
  /\ worker = 0
  /\ isWorkerInitialized = FALSE
  /\ initializationPromise = 0
  /\ selectedModel = DefaultModel
  /\ modelConfig = <<>>
  /\ processingStatus = Status(FALSE, "ready", 0, "")
  /\ results = <<>>
  /\ selectedElements \in 0..MaxElements
  /\ hasWebGPU \in BOOLEAN
  /\ hasWASM \in BOOLEAN
  /\ workers = [k \in WorkerIds |-> NoWorker]
  /\ inits = [i \in WorkerIds |-> NoInit]
  /\ calls = [c \in CallIds |-> NoCall]
  /\ FactoryIdle
  /\ ServiceIdle
  /\ TimelineIdle
  /\ TranscriptIdle
  /\ AudioIdle

Next ==
  \/ InitializeWorker
  \/ BackendProbed
  \/ TerminateWorker
  \/ SetSelectedModel
  \/ ProcessSelectedElement
  \/ AudioExtracted
  \/ WorkerMessage
  \/ WorkerError
  \/ ClearResults
  \/ ResetState
  \/ RemoveResult
  \/ SelectElement
  \/ WorkerReceive
  \/ TransformersImported
  \/ ModelProgress
  \/ ModelLoaded
  \/ StreamText
  \/ InferenceDone

Spec == Init /\ [][Next]_vars

\* ---- specification of the worker's model singleton ----------------------
\* the worker serves job messages naming any model; the store is left as
\* constructed
FactoryInit ==
  /\ Init
  /\ selectedElements = 0
  /\ hasWebGPU
  /\ hasWASM

FactoryNext ==
  \/ GetInstance
  \/ Disposed
  \/ Constructed

SpecFactory == FactoryInit /\ [][FactoryNext]_vars

\* ---- specification of insertResultToTimeline ----------------------------
\* the store after one job has completed on an initialized worker, for every
\* result the worker can have sent and every position of the selected element
TimelineInit ==
  /\ worker = 1
  /\ isWorkerInitialized = TRUE
  /\ initializationPromise = 0
  /\ selectedModel = DefaultModel
  /\ hasWebGPU = TRUE
  /\ hasWASM = TRUE
  /\ modelConfig = [device |-> "webgpu", dtype |-> "fp16", modelName |-> DefaultModel]
  /\ processingStatus = Status(FALSE, "ready", 100, "")
  /\ workers = [k \in WorkerIds |->
                  IF k = 1 THEN [NoWorker EXCEPT !.status = "alive", !.tested = TRUE,
                                                 !.transformers = TRUE]
                  ELSE NoWorker]
  /\ inits = [i \in WorkerIds |->
                IF i = 1 THEN [NoInit EXCEPT !.pc = "resolved", !.workerReady = TRUE,
                                             !.model = DefaultModel]
                ELSE NoInit]
  /\ calls = [c \in CallIds |->
                IF c = 1 THEN [NoCall EXCEPT !.pc = "posted", !.worker = 1,
                                             !.model = DefaultModel, !.element = 1,
                                             !.job = "completeHandled"]
                ELSE NoCall]
  /\ \E chunks \in {c \in SeqsUpTo(FormattedChunks, MaxChunks) :
                       \A i \in DOMAIN c : c[i].timestamp[1] <= c[i].timestamp[2]} :
       results = <<TranscriptionResultOf(1, 1, chunks)>>
  /\ selectedElements \in 0..MaxElements
  /\ elementStartTime \in ElementStarts
  /\ tracks = <<>>
  /\ FactoryIdle
  /\ ServiceIdle
  /\ TranscriptIdle
  /\ AudioIdle

TimelineNext ==
  \/ InsertResultToTimeline
  \/ RemoveResult
  \/ ClearResults
  \/ SelectElement

SpecTimeline == TimelineInit /\ [][TimelineNext]_vars

\* ---- specification of createTranscriptFromWhisperOutput ----------------
StoreIdle ==
  /\ worker = 0
  /\ isWorkerInitialized = FALSE
  /\ initializationPromise = 0
  /\ selectedModel = DefaultModel
  /\ modelConfig = <<>>
  /\ processingStatus = Status(FALSE, "ready", 0, "")
  /\ results = <<>>
  /\ selectedElements = 0
  /\ hasWebGPU = TRUE
  /\ hasWASM = TRUE
  /\ workers = [k \in WorkerIds |-> NoWorker]
  /\ inits = [i \in WorkerIds |-> NoInit]
  /\ calls = [c \in CallIds |-> NoCall]

TranscriptInit ==
  /\ StoreIdle
  /\ FactoryIdle
  /\ ServiceIdle
  /\ TimelineIdle
  /\ whisperOutput \in WhisperOutputs
  /\ transcript = <<>>
  /\ srtTranscript = NoTranscript
  /\ downloads = <<>>
  /\ AudioIdle

TranscriptNext == CreateTranscript

SpecTranscript == TranscriptInit /\ [][TranscriptNext]_vars

\* ---- specification of the SRT export -------------------------------------
SrtInit ==
  /\ StoreIdle
  /\ FactoryIdle
  /\ ServiceIdle
  /\ TimelineIdle
  /\ whisperOutput = NoOutput
  /\ transcript = <<>>
  /\ srtTranscript \in SrtTranscripts
  /\ downloads = <<>>
  /\ AudioIdle

SrtNext == DownloadSRT

SpecSrt == SrtInit /\ [][SrtNext]_vars

\* ---- specification of trimAudioBuffer ------------------------------------
TrimInit ==
  /\ StoreIdle
  /\ FactoryIdle
  /\ ServiceIdle
  /\ TimelineIdle
  /\ TranscriptIdle
  /\ trimCall \in TrimCalls
  /\ trimmedBuffer = NoBuffer
  /\ resampleCall = NoResampleCall
  /\ resampledData = <<>>
  /\ audioElements = <<>>
  /\ extractedAudio = NoExtraction

TrimNext == TrimAudioBuffer

SpecTrim == TrimInit /\ [][TrimNext]_vars

\* ---- specification of resampleAudio --------------------------------------
ResampleInit ==
  /\ StoreIdle
  /\ FactoryIdle
  /\ ServiceIdle
  /\ TimelineIdle
  /\ TranscriptIdle
  /\ trimCall = NoTrimCall
  /\ trimmedBuffer = NoBuffer
  /\ resampleCall \in ResampleCalls
  /\ resampledData = <<>>
  /\ audioElements = <<>>
  /\ extractedAudio = NoExtraction

ResampleNext == ResampleAudio

SpecResample == ResampleInit /\ [][ResampleNext]_vars

\* ---- specification of the audio extraction -------------------------------
ExtractInit ==
  /\ StoreIdle
  /\ FactoryIdle
  /\ ServiceIdle
  /\ TimelineIdle
  /\ TranscriptIdle
  /\ trimCall = NoTrimCall
  /\ trimmedBuffer = NoBuffer
  /\ resampleCall = NoResampleCall
  /\ resampledData = <<>>
  /\ \E sampleRate \in SampleRates :
       audioElements \in SeqsUpTo(TrackElements(sampleRate), MaxAudioElements)
  /\ extractedAudio = NoExtraction

ExtractNext ==
  \/ ExtractAudioFromTrack
  \/ ExtractAudioFromElement

SpecExtract == ExtractInit /\ [][ExtractNext]_vars

\* ---- specification of the streamer of one transcribe call ----------------
\* the model is loaded and the engine is about to run
StreamerInit ==
  /\ StoreIdle
  /\ FactoryIdle
  /\ TimelineIdle
  /\ TranscriptIdle
  /\ AudioIdle
  /\ \E d \in BOOLEAN :
       transcribeCall = [NoTranscribe EXCEPT !.pc = "streaming", !.isDistilWhisper = d]
  /\ jobs = [c \in CallIds |-> NoJob]
  /\ tts = NewService
  /\ ttsWorker = NoTtsWorker
  /\ ttsCalls = <<>>

StreamerNext ==
  \/ OnChunkStart
  \/ CallbackFunction
  \/ OnChunkEnd
  \/ OnFinalize
  \/ TranscriberReturns

SpecStreamer == StreamerInit /\ [][StreamerNext]_vars

\* ---- specification of the worker's jobs -----------------------------------
\* an initialized worker that has been sent MaxCalls job messages, of any
\* audio and any model
JobInit ==
  /\ worker = 1
  /\ isWorkerInitialized = TRUE
  /\ initializationPromise = 0
  /\ selectedModel = DefaultModel
  /\ hasWebGPU = TRUE
  /\ hasWASM = TRUE
  /\ modelConfig = [device |-> "webgpu", dtype |-> "fp16", modelName |-> DefaultModel]
  /\ processingStatus = Status(TRUE, "loading", 0, "")
  /\ workers = [k \in WorkerIds |->
                  IF k = 1 THEN [NoWorker EXCEPT !.status = "alive", !.tested = TRUE,
                                                 !.inbox = [c \in CallIds |-> JobMsg(c)]]
                  ELSE NoWorker]
  /\ inits = [i \in WorkerIds |->
                IF i = 1 THEN [NoInit EXCEPT !.pc = "resolved", !.workerReady = TRUE,
                                             !.model = DefaultModel]
                ELSE NoInit]
  /\ \E models \in [CallIds -> JobModels] :
       calls = [c \in CallIds |->
                  [NoCall EXCEPT !.pc = "posted", !.worker = 1, !.model = models[c],
                                 !.element = 1, !.job = "queued"]]
  /\ results = <<>>
  /\ selectedElements = 1
  /\ FactoryIdle
  /\ TimelineIdle
  /\ TranscriptIdle
  /\ AudioIdle
  /\ transcribeCall = NoTranscribe
  /\ \E audios \in [CallIds -> Audios] :
       jobs = [c \in CallIds |-> [NoJob EXCEPT !.audio = audios[c]]]
  /\ tts = NewService
  /\ ttsWorker = NoTtsWorker
  /\ ttsCalls = <<>>

JobNext ==
  \/ JobReceive
  \/ JobImported
  \/ JobDisposed
  \/ JobConstructed
  \/ InferenceDone

SpecJob == JobInit /\ [][JobNext]_vars

\* ---- specification of KokoroTTSService and its worker --------------------
\* the service as its constructor leaves it, its worker just started
TtsInit ==
  /\ StoreIdle
  /\ FactoryIdle
  /\ TimelineIdle
  /\ TranscriptIdle
  /\ AudioIdle
  /\ transcribeCall = NoTranscribe
  /\ jobs = [c \in CallIds |-> NoJob]
  /\ tts = NewService
  /\ ttsWorker = [NoTtsWorker EXCEPT !.pc = "detecting"]
  /\ ttsCalls = <<>>

TtsNext ==
  \/ Initialize
  \/ CheckReady
  \/ GenerateSpeech
  \/ TtsMessage
  \/ TtsDeviceDetected
  \/ TtsModelLoaded
  \/ TtsGenerated

SpecTts == TtsInit /\ [][TtsNext]_vars

\* messages are delivered, timers fire, and the worker's awaits come back
SpecTtsFair ==
  /\ SpecTts
  /\ WF_vars(TtsMessage)
  /\ WF_vars(CheckReady)
  /\ WF_vars(TtsDeviceDetected)
  /\ WF_vars(TtsModelLoaded)
  /\ WF_vars(TtsGenerated)

\* ---- events the claims speak of -----------------------------------------
Finished(d) ==
  \/ calls[d].pc \in {"none", "failed"}
  \/ calls[d].pc = "posted"
       /\ calls[d].job \in {"completeHandled", "errorHandled", "cancelled"}
\* call c fails while no other call or job of the orchestrator is under way
CallFails(c) ==
  /\ calls[c].pc # "failed" /\ calls'[c].pc = "failed"
  /\ \A d \in CallIds \ {c} : Finished(d) /\ calls'[d] = calls[d]
InitFails(i) == inits[i].pc # "rejected" /\ inits'[i].pc = "rejected"
CompleteHandled(c) == calls[c].job # "completeHandled" /\ calls'[c].job = "completeHandled"
ErrorHandled(c) == calls[c].job # "errorHandled" /\ calls'[c].job = "errorHandled"
HasRecord(rs, c) == \E n \in DOMAIN rs : rs[n].id = c
Outstanding ==
  {c \in CallIds : calls[c].pc = "posted"
                   /\ calls[c].job \in {"queued", "import", "loading", "transcribing"}}

\* C1: every end of a job or of an initialization (a 'complete' or 'error'
\* message handled, processSelectedElement or initializeWorker failed) leaves
\* processingStatus.isProcessing = false.
C1_ProcessingFlagReset ==
  [][((\E c \in CallIds : CompleteHandled(c) \/ ErrorHandled(c) \/ CallFails(c))
      \/ (\E i \in WorkerIds : InitFails(i)))
     => ~processingStatus'.isProcessing]_vars

\* C2: every failure of processSelectedElement or initializeWorker leaves
\* stage 'error' with a non-empty error message.
C2_FailureSetsErrorStage ==
  [][((\E c \in CallIds : CallFails(c)) \/ (\E i \in WorkerIds : InitFails(i)))
     => (processingStatus'.stage = "error" /\ processingStatus'.error # "")]_vars

\* C3: at most one inference job is outstanding (posted to the worker and not
\* yet answered by 'complete' or 'error') per orchestrator.
C3_SingleJobInFlight == Cardinality(Outstanding) <= 1

\* C4: a handled 'complete' message appends exactly one record, the job's, and
\* a record leaves results only by removeResult with its id, clearResults or
\* resetState.
C4_CompletedJobRecorded ==
  [][/\ \A c \in CallIds :
          CompleteHandled(c) =>
            /\ Len(results') = Len(results) + 1
            /\ SubSeq(results', 1, Len(results)) = results
            /\ results'[Len(results')].id = c
     /\ \A n \in DOMAIN results :
          ~HasRecord(results', results[n].id) =>
            \/ results' = <<>>
            \/ results' = removeResult(World, results[n].id).results]_vars

\* the stage order ready -> loading -> initializing -> (downloading)* ->
\* transcribing -> ready, with 'error' from any non-terminal stage; leaving
\* 'error' or 'terminated' starts over
StageOrder ==
  {<<"ready", "loading">>, <<"loading", "initializing">>,
   <<"initializing", "downloading">>, <<"initializing", "transcribing">>,
   <<"downloading", "transcribing">>, <<"transcribing", "ready">>}
    \cup {<<st, "error">> : st \in Stages \ {"terminated", "error"}}
    \cup {<<st, "terminated">> : st \in Stages}
    \cup {<<st, nx>> : st \in {"error", "terminated"}, nx \in {"ready", "loading", "error"}}

\* C5: stage starts at 'ready' and every change of stage follows the stage
\* order (cancellation and resetState apart).
C5_StageOrder ==
  [][processingStatus'.stage # processingStatus.stage =>
       \/ <<processingStatus.stage, processingStatus'.stage>> \in StageOrder
       \/ Commit(resetState(World))]_vars

\* C6: stage becomes 'terminated' only by terminateWorker called by the caller.
C6_TerminatedOnlyByCancel ==
  [][(processingStatus.stage # "terminated" /\ processingStatus'.stage = "terminated")
     => Commit(terminateWorker(World))]_vars

\* C7: terminateWorker with a worker present leaves worker = null,
\* isWorkerInitialized = false, isProcessing = false and stage 'terminated',
\* and no record of a job the terminated worker held is appended afterwards.
C7_TerminateIsImmediate ==
  [][/\ (worker # 0 /\ TerminateWorker) =>
          /\ worker' = 0
          /\ ~isWorkerInitialized'
          /\ ~processingStatus'.isProcessing
          /\ processingStatus'.stage = "terminated"
          /\ workers'[worker].status = "terminated"
          /\ \A c \in Outstanding : calls[c].worker = worker => ~HasRecord(results', c)
     /\ \A c \in CallIds :
          (calls[c].pc = "posted" /\ workers[calls[c].worker].status = "terminated"
             /\ ~HasRecord(results, c))
          => ~HasRecord(results', c)]_vars

\* a job was in flight when terminateWorker ran
C7_Witness ==
  /\ worker = 0
  /\ processingStatus.stage = "terminated"
  /\ \E c \in CallIds : calls[c].job = "cancelled"

\* C8: after any failure of initializeWorker the store holds stage 'error' and
\* initializationPromise = null.
C8_RetryAfterFailure ==
  [][\A i \in WorkerIds :
       InitFails(i) => (processingStatus'.stage = "error" /\ initializationPromise' = 0)]_vars

\* C9: modelConfig is webgpu/fp16 with WebGPU, wasm/q8 with WebAssembly only,
\* initialization fails with neither, and the model is loaded with the device
\* and precision of modelConfig.
C9_BackendSelection ==
  /\ modelConfig # <<>> =>
       /\ hasWebGPU => (modelConfig.device = "webgpu" /\ modelConfig.dtype = "fp16")
       /\ (~hasWebGPU /\ hasWASM) => (modelConfig.device = "wasm" /\ modelConfig.dtype = "q8")
       /\ hasWebGPU \/ hasWASM
  /\ (~hasWebGPU /\ ~hasWASM) => ~isWorkerInitialized
  /\ \A c \in CallIds :
       (calls[c].pc = "posted" /\ calls[c].job = "transcribing" /\ modelConfig # <<>>) =>
         /\ PipelineOptions(calls[c].model).device = modelConfig.device
         /\ PipelineOptions(calls[c].model).dtype.encoder_model = modelConfig.dtype
         /\ PipelineOptions(calls[c].model).dtype.decoder_model_merged = modelConfig.dtype

\* C10: at most one model instance is live in the worker, and a live instance
\* is the factory's current instance.
C10_SingleLiveInstance ==
  \A p \in DOMAIN pipelines : pipelines[p].state = "live" => instance = p

\* C11: a getInstance call naming another model while an instance exists
\* first disposes that instance; construction starts only when the disposal
\* has finished, also when it failed, and the call returns a pipeline of the
\* model it named.
C11_DisposeBeforeConstruct ==
  [][\A g \in GetIds :
       /\ (gets[g].pc = "none" /\ gets'[g].pc # "none"
             /\ instance # 0 /\ currentModel # gets'[g].model)
          => /\ gets'[g].pc = "disposing"
             /\ gets'[g].target = instance
             /\ pipelines'[instance].state = "disposing"
             /\ Len(pipelines') = Len(pipelines)
       /\ (gets[g].pc = "disposing" /\ gets'[g].pc # "disposing")
          => /\ gets'[g].pc = "constructing"
             /\ pipelines'[gets[g].target].state \in {"disposed", "disposeFailed"}
       /\ (gets[g].target # 0 /\ gets[g].pc = "constructing" /\ gets'[g].pc = "returned")
          => /\ gets'[g].result # gets[g].target
             /\ pipelines'[gets'[g].result].model = gets[g].model
             /\ pipelines'[gets[g].target].state \in {"disposed", "disposeFailed"}]_vars

\* a model swap whose disposal failed has returned the new model
C11_Witness ==
  \E g \in GetIds :
    /\ gets[g].pc = "returned"
    /\ gets[g].target # 0
    /\ pipelines[gets[g].target].state = "disposeFailed"
    /\ pipelines[gets[g].target].model # gets[g].model
    /\ pipelines[gets[g].result].model = gets[g].model

\* the messages worker k posts in a step
NewMsgs(k) ==
  LET old == workers[k].outbox
      new == workers'[k].outbox
  IN IF Len(new) > Len(old) /\ SubSeq(new, 1, Len(old)) = old
     THEN SubSeq(new, Len(old) + 1, Len(new))
     ELSE <<>>

\* the 'complete' and 'error' messages of job c among msgs
Terminals(msgs, c) ==
  {n \in DOMAIN msgs : msgs[n].status \in {"complete", "error"} /\ msgs[n].job = c}

\* the worker has received job c and not yet answered it
InWorker(c) ==
  calls[c].pc = "posted" /\ calls[c].job \in {"queued", "import", "loading", "transcribing"}

\* C12: the worker posts exactly one terminal message ('complete' or 'error')
\* for every job message it receives: one when the job ends, none before and
\* none after.
C12_JobResolvesOnce ==
  [][\A c \in CallIds :
       calls[c].pc = "posted" =>
         LET posted == Cardinality(Terminals(NewMsgs(calls[c].worker), c))
         IN /\ (InWorker(c) /\ calls'[c].job = "sent") => posted = 1
            /\ ~(InWorker(c) /\ calls'[c].job = "sent") => posted = 0]_vars

\* the 'update' messages of job c among msgs
Updates(msgs, c) ==
  {n \in DOMAIN msgs : msgs[n].status = "update" /\ msgs[n].job = c}

\* C13: the store handles each worker's messages in the order they were
\* posted, and no 'update' of a job is posted, queued or handled after the
\* job's 'complete' or 'error' message.
C13_MessageOrder ==
  [][/\ \A k \in WorkerIds :
          LET old == workers[k].outbox
              new == workers'[k].outbox
          IN /\ Len(new) >= Len(old) => SubSeq(new, 1, Len(old)) = old
             /\ Len(new) < Len(old) => (new = Tail(old) \/ new = <<>>)
             /\ (old # <<>> /\ new = Tail(old) /\ ~inits[k].aborted
                   /\ workers'[k].status # "terminated"
                   /\ Head(old).status \in {"complete", "error"} /\ Head(old).job # 0)
                => calls'[Head(old).job].job \in {"completeHandled", "errorHandled"}
     /\ \A c \in CallIds :
          calls[c].pc = "posted" =>
            LET box == workers'[calls[c].worker].outbox
            IN /\ calls[c].job \in {"sent", "completeHandled", "errorHandled"}
                    => Updates(NewMsgs(calls[c].worker), c) = {}
               /\ \A m \in Terminals(box, c), n \in Updates(box, c) : n < m
               /\ calls'[c].job \in {"completeHandled", "errorHandled"}
                    => Updates(box, c) = {}]_vars

\* a progress message of a job is queued ahead of the job's terminal message
C13_Witness ==
  \E k \in WorkerIds, c \in CallIds :
    /\ Len(workers[k].outbox) = 2
    /\ workers[k].outbox[1] = UpdateMsg("transcribing", 5, c)
    /\ workers[k].outbox[2] = CompleteMsg(c)

\* the store handles message m of worker k in this step
Handles(k, m) ==
  /\ workers[k].outbox # <<>>
  /\ Head(workers[k].outbox) = m
  /\ workers'[k].outbox = Tail(workers[k].outbox)
  /\ workers'[k].status # "terminated"
  /\ ~inits[k].aborted

\* C14: while a job runs (stage 'loading', 'downloading' or 'transcribing'
\* with isProcessing set, no other call under way), the progress a worker
\* update of that job writes is within 0..100 and not below the progress
\* the store held before.
C14_ProgressMonotonic ==
  [][\A k \in WorkerIds, c \in CallIds :
       (/\ calls[c].pc = "posted" /\ calls[c].worker = k
        /\ \A d \in CallIds \ {c} : Finished(d)
        /\ \E m \in {workers[k].outbox[n] : n \in DOMAIN workers[k].outbox} :
              m.status = "update" /\ m.job = c /\ Handles(k, m)
        /\ processingStatus.isProcessing
        /\ processingStatus.stage \in {"loading", "downloading", "transcribing"})
       => /\ processingStatus'.progress \in 0..100
          /\ processingStatus'.progress >= processingStatus.progress]_vars

\* a word of the engine output with its times in milliseconds
InMs(word) ==
  [text |-> word.text, startTime |-> 1000 * word.timestamp[1],
   endTime |-> 1000 * word.timestamp[2]]

\* the words of the flat list that start within the chunk, in list order
FlatWordsOf(output, chunk) ==
  LET inside == SelectSeq(output.words,
                  LAMBDA word : /\ 1000 * chunk.timestamp[1] <= 1000 * word.timestamp[1]
                                /\ 1000 * word.timestamp[1] <= 1000 * chunk.timestamp[2])
  IN [j \in DOMAIN inside |-> InMs(inside[j])]

\* C19: a chunk's words are its own word list when that is non-empty, else
\* the flat list's words starting within the chunk when the flat list is
\* non-empty, else words synthesized from the chunk text.
C19_WordPriority ==
  transcript # <<>> =>
    /\ Len(transcript.chunks) = Len(whisperOutput.chunks)
    /\ \A i \in DOMAIN whisperOutput.chunks :
         LET chunk == whisperOutput.chunks[i]
             got == transcript.chunks[i].words
         IN /\ chunk.words # <<>>
                 => got = [j \in DOMAIN chunk.words |-> InMs(chunk.words[j])]
            /\ (chunk.words = <<>> /\ whisperOutput.words # <<>>)
                 => got = FlatWordsOf(whisperOutput, chunk)
            /\ (chunk.words = <<>> /\ whisperOutput.words = <<>>)
                 => [j \in DOMAIN got |-> got[j].text] = split(trim(chunk.text))

\* one chunk took its own words and another, without own words, words of
\* the flat list
C19_Witness ==
  /\ transcript # <<>>
  /\ \E i, j \in DOMAIN whisperOutput.chunks :
       /\ whisperOutput.chunks[i].words # <<>>
       /\ whisperOutput.chunks[j].words = <<>>
       /\ whisperOutput.words # whisperOutput.chunks[i].words
       /\ transcript.chunks[j].words # <<>>
       /\ transcript.chunks[j].words # transcript.chunks[i].words

\* the number of words of a text: its maximal runs of non-space characters
WordCount(t) ==
  Cardinality({i \in DOMAIN t : t[i] # " " /\ (i = 1 \/ t[i - 1] = " ")})

RECURSIVE SumDurations(_)
SumDurations(ws) ==
  IF ws = <<>> THEN 0
  ELSE (ws[1].endTime - ws[1].startTime) + SumDurations(Tail(ws))

\* C20: with no word-level data, a chunk's synthesized words are as many as
\* the words of its text (none for an empty or all-space text), contiguous
\* from the chunk start, and their durations sum to the chunk's duration.
C20_SynthesizedWords ==
  (transcript # <<>> /\ whisperOutput.words = <<>>) =>
    \A i \in DOMAIN whisperOutput.chunks :
      whisperOutput.chunks[i].words = <<>> =>
        LET chunk == transcript.chunks[i]
            ws == chunk.words
        IN /\ Len(ws) = WordCount(whisperOutput.chunks[i].text)
           /\ \A j \in DOMAIN ws :
                ws[j].startTime = IF j = 1 THEN chunk.startTime ELSE ws[j - 1].endTime
           /\ ws # <<>> => SumDurations(ws) = chunk.endTime - chunk.startTime

\* C15: results changes only when a 'complete' message is handled or by
\* removeResult, clearResults or resetState; every other operation of the
\* store leaves every record unchanged.
C15_ResultsFrame ==
  [][results' # results =>
       \/ \E c \in CallIds : CompleteHandled(c)
       \/ \E n \in DOMAIN results : results' = removeResult(World, results[n].id).results
       \/ results' = clearResults(World).results
       \/ results' = resetState(World).results]_vars

\* C16: in every track insertResultToTimeline has added, each element ends
\* no later than the next one starts.
C16_NoOverlap ==
  \A k \in DOMAIN tracks :
    \A i \in 1..(Len(tracks[k]) - 1) :
      tracks[k][i].startTime + tracks[k][i].duration <= tracks[k][i + 1].startTime

\* chunks [0, 3] and [2, 5] inserted at offset 0: durations 2.0 and 3.0
C16_Witness ==
  /\ tracks # <<>>
  /\ results # <<>>
  /\ elementStartTime = 0
  /\ Len(results[1].transcript.chunks) = 2
  /\ results[1].transcript.chunks[1].startTime = 0
  /\ results[1].transcript.chunks[1].endTime = 3000000
  /\ results[1].transcript.chunks[2].startTime = 2000000
  /\ results[1].transcript.chunks[2].endTime = 5000000
  /\ Len(tracks[1]) = 2
  /\ tracks[1][1].startTime = 0 /\ tracks[1][1].duration = 2000
  /\ tracks[1][2].startTime = 2000 /\ tracks[1][2].duration = 3000

\* C17: the track added holds the candidate elements in start-time order
\* with start times and contents kept; a duration changes only where the
\* element would end after the next one starts, and then becomes the gap to
\* the next start; no duration grows and the last element is untouched.
C17_OnlyShortens ==
  [][tracks' # tracks =>
       \E n \in DOMAIN results, mode \in Modes :
         LET pre == SortByStartTime(
                      CandidateElements(results[n], mode, elementStartTime))
             new == tracks'[Len(tracks')]
         IN /\ Len(new) = Len(pre)
            /\ \A i \in DOMAIN pre :
                 /\ new[i].startTime = pre[i].startTime
                 /\ new[i].content = pre[i].content
                 /\ new[i].duration <= pre[i].duration
                 /\ (i < Len(pre)
                       /\ pre[i].startTime + pre[i].duration > pre[i + 1].startTime)
                      => new[i].duration = pre[i + 1].startTime - pre[i].startTime
                 /\ ~(i < Len(pre)
                        /\ pre[i].startTime + pre[i].duration > pre[i + 1].startTime)
                      => new[i].duration = pre[i].duration
            /\ pre # <<>> => new[Len(new)] = pre[Len(pre)]]_vars

\* chunks [2.5, 5] and [0, 3], out of order, inserted at offset 10: the
\* track starts with the second chunk, cut from 3.0 to 2.5, and the first
\* chunk follows with its duration kept
C17_Witness ==
  /\ tracks # <<>>
  /\ results # <<>>
  /\ elementStartTime = 10000
  /\ Len(results[1].transcript.chunks) = 2
  /\ results[1].transcript.chunks[1].startTime = 2500000
  /\ results[1].transcript.chunks[1].endTime = 5000000
  /\ results[1].transcript.chunks[2].startTime = 0
  /\ results[1].transcript.chunks[2].endTime = 3000000
  /\ Len(tracks[1]) = 2
  /\ tracks[1][1].startTime = 10000 /\ tracks[1][1].duration = 2500
  /\ tracks[1][2].startTime = 12500 /\ tracks[1][2].duration = 2500

\* C18: the candidate elements of an insertion are one per chunk of the
\* record's transcript at sentence granularity, one per word at word
\* granularity, in order, each starting at the selected element's start plus
\* the unit's start in seconds and lasting the unit's length in seconds,
\* raised to 1.0 s for a sentence and to 0.5 s for a word; the track added is
\* made of these candidates.
C18_Projection ==
  [][tracks' # tracks =>
       \E n \in DOMAIN results, mode \in Modes :
         LET units == IF mode = "words" THEN WordsOf(results[n].transcript.chunks)
                      ELSE results[n].transcript.chunks
             floor == IF mode = "words" THEN 500 ELSE 1000
             textElements == CandidateElements(results[n], mode, elementStartTime)
         IN /\ tracks'[Len(tracks')] = ResolveOverlaps(SortByStartTime(textElements))
            /\ Len(textElements) = Len(units)
            /\ \A i \in DOMAIN units :
                 /\ textElements[i].startTime
                      = elementStartTime + (units[i].startTime \div 1000)
                 /\ textElements[i].duration
                      = Max((units[i].endTime - units[i].startTime) \div 1000, floor)]_vars

\* reading an SRT file back: lines, blocks separated by blank lines, and in
\* each block the index line, the time line and the text lines
RECURSIVE SplitOn(_, _, _, _)
SplitOn(str, separator, cur, out) ==
  IF str = <<>> THEN Append(out, cur)
  ELSE IF Head(str) = separator THEN SplitOn(Tail(str), separator, <<>>, Append(out, cur))
  ELSE SplitOn(Tail(str), separator, Append(cur, Head(str)), out)

RECURSIVE ParseInt(_)
ParseInt(str) ==
  LET digits == <<"0", "1", "2", "3", "4", "5", "6", "7", "8", "9">>
      last == str[Len(str)]
  IN IF str = <<>> \/ ~\E d \in 1..10 : digits[d] = last THEN -1
     ELSE LET value == (CHOOSE d \in 1..10 : digits[d] = last) - 1
          IN IF Len(str) = 1 THEN value
             ELSE LET rest == ParseInt(SubSeq(str, 1, Len(str) - 1))
                  IN IF rest < 0 THEN -1 ELSE (10 * rest) + value

RECURSIVE BlocksOf(_, _, _)
BlocksOf(lines, cur, out) ==
  IF lines = <<>> THEN (IF cur = <<>> THEN out ELSE Append(out, cur))
  ELSE IF Head(lines) = <<>>
       THEN BlocksOf(Tail(lines), <<>>, IF cur = <<>> THEN out ELSE Append(out, cur))
  ELSE BlocksOf(Tail(lines), Append(cur, Head(lines)), out)

ParseSRTTime(str) ==
  LET parts == SplitOn(str, ":", <<>>, <<>>)
      tail == IF Len(parts) = 3 THEN SplitOn(parts[3], ",", <<>>, <<>>) ELSE <<>>
  IN IF Len(parts) # 3 \/ Len(tail) # 2
     THEN [hours |-> -1, minutes |-> -1, seconds |-> -1, milliseconds |-> -1,
           widths |-> <<0, 0, 0, 0>>]
     ELSE [hours |-> ParseInt(parts[1]), minutes |-> ParseInt(parts[2]),
           seconds |-> ParseInt(tail[1]), milliseconds |-> ParseInt(tail[2]),
           widths |-> <<Len(parts[1]), Len(parts[2]), Len(tail[1]), Len(tail[2])>>]

ParseSRT(str) ==
  LET blocks == BlocksOf(SplitOn(str, "\n", <<>>, <<>>), <<>>, <<>>)
  IN [n \in DOMAIN blocks |->
        LET times == IF Len(blocks[n]) >= 2
                     THEN SplitOn(blocks[n][2], " ", <<>>, <<>>) ELSE <<>>
        IN [index |-> ParseInt(blocks[n][1]),
            arrow |-> IF Len(times) = 3 THEN times[2] ELSE <<>>,
            startTime |-> ParseSRTTime(IF Len(times) = 3 THEN times[1] ELSE <<>>),
            endTime |-> ParseSRTTime(IF Len(times) = 3 THEN times[3] ELSE <<>>),
            text |-> IF Len(blocks[n]) >= 3
                     THEN join(SubSeq(blocks[n], 3, Len(blocks[n])), <<"\n">>)
                     ELSE <<>>]]

\* the HH:MM:SS,mmm fields read back are in range, padded, and add up to t
SRTTimeIs(time, t) ==
  /\ time.hours >= 0
  /\ time.minutes >= 0 /\ time.minutes < 60
  /\ time.seconds >= 0 /\ time.seconds < 60
  /\ time.milliseconds >= 0 /\ time.milliseconds < 1000
  /\ time.widths[1] >= 2 /\ time.widths[2] = 2 /\ time.widths[3] = 2
  /\ time.widths[4] = 3
  /\ (time.hours * 3600000) + (time.minutes * 60000) + (time.seconds * 1000)
       + time.milliseconds = t

\* C21: the SRT file written for a transcript whose times are whole
\* non-negative milliseconds reads back as one block per chunk, numbered
\* 1..n in chunk order, with the chunk's trimmed text, and with time fields
\* that are in range (minutes < 60, seconds < 60, milliseconds < 1000),
\* zero-padded, and equal to the chunk's start and end times.
C21_SrtRoundTrip ==
  \A d \in DOMAIN downloads :
    LET parsed == ParseSRT(downloads[d])
    IN /\ Len(parsed) = Len(srtTranscript.chunks)
       /\ \A i \in DOMAIN parsed :
            /\ parsed[i].index = i
            /\ parsed[i].arrow = <<"-", "-", ">">>
            /\ SRTTimeIs(parsed[i].startTime, srtTranscript.chunks[i].startTime)
            /\ SRTTimeIs(parsed[i].endTime, srtTranscript.chunks[i].endTime)
            /\ parsed[i].text = trim(srtTranscript.chunks[i].text)

\* two chunks exported, the second from 1 h 1 min 1.001 s to 100 h: its
\* time line reads 01:01:01,001 --> 100:00:00,000
C21_Witness ==
  /\ Len(downloads) = 1
  /\ Len(srtTranscript.chunks) = 2
  /\ srtTranscript.chunks[1].startTime = 999
  /\ srtTranscript.chunks[2].startTime = 3661001
  /\ srtTranscript.chunks[2].endTime = 360000000
  /\ Len(ParseSRT(downloads[1])) = 2
  /\ ParseSRT(downloads[1])[2].startTime.minutes = 1
  /\ ParseSRT(downloads[1])[2].startTime.milliseconds = 1
  /\ ParseSRT(downloads[1])[2].endTime.widths[1] = 3

\* C24: trimming a buffer of L samples to start sample s and d samples
\* returns exactly the source samples of [s, s+d) clamped to [0, L); when
\* that range is empty (d <= 0, L = 0 or s >= L) it returns one silent
\* sample and copies nothing from the source.
C24_TrimCopiesRange ==
  trimmedBuffer # NoBuffer =>
    LET source == trimCall.audioBuffer.channelData
        s == ToSamples(trimCall.startSeconds, trimCall.audioBuffer.sampleRate)
        d == ToSamples(trimCall.durationSeconds, trimCall.audioBuffer.sampleRate)
        from == Max(s, 0)
        to == Min(s + d, Len(source))
    IN /\ trimmedBuffer.sampleRate = trimCall.audioBuffer.sampleRate
       /\ trimmedBuffer.channelData =
            IF to <= from THEN <<0>> ELSE [i \in 1..(to - from) |-> source[from + i]]

\* C26: at matching rates resampleAudio returns its input unchanged, so that
\* resampling the result again changes nothing; at differing rates the
\* output has floor(length / (inputRate / targetRate)) samples.
C26_Resample ==
  resampledData # <<>> =>
    LET inputRate == resampleCall.inputSampleRate
        targetRate == resampleCall.targetSampleRate
        length == Len(resampleCall.inputData)
    IN IF inputRate = targetRate
       THEN /\ resampledData[1] = resampleCall.inputData
            /\ resampleAudio(resampledData[1], inputRate, targetRate) = resampledData[1]
       ELSE Len(resampledData[1]) = (length * targetRate) \div inputRate

\* three samples resampled from rate 2 to rate 1 give one sample
C26_Witness ==
  /\ resampledData # <<>>
  /\ resampleCall.inputSampleRate = 2
  /\ resampleCall.targetSampleRate = 1
  /\ Len(resampleCall.inputData) = 3
  /\ Len(resampledData[1]) = 1
  /\ resampledData[1][1] = resampleCall.inputData[1]

\* the track with every element of no effective duration left without a file
WithoutTrimmedOut(elements) ==
  [n \in DOMAIN elements |->
     IF EffectiveDuration(elements[n].element) <= 0
     THEN [elements[n] EXCEPT !.mediaItem.file = FALSE]
     ELSE elements[n]]

\* C22: an element whose effective duration (duration - trimStart - trimEnd)
\* is <= 0 makes no extraction raise: extractAudioFromElement returns a
\* silent buffer for it, and extractAudioFromTrack leaves it out, returning
\* what it returns for the other elements and failing only when no element
\* yields a segment.
C22_ExtractionTotal ==
  /\ (/\ extractedAudio.element # NotCalled
      /\ EffectiveDuration(audioElements[1].element) <= 0
      /\ audioElements[1].mediaItem.file
      /\ audioElements[1].mediaItem.decodes)
       => /\ extractedAudio.element.outcome = "returned"
          /\ \A i \in DOMAIN extractedAudio.element.audioData :
               extractedAudio.element.audioData[i] = 0
  /\ extractedAudio.track # NotCalled
       => /\ extractedAudio.track = extractAudioFromTrack(WithoutTrimmedOut(audioElements))
          /\ extractedAudio.track.outcome = "thrown"
               => extractedAudio.track.error \in {ErrNoElements, ErrNoSegments}

\* the audio elements of the track that yield a segment: a file that
\* decodes and a positive effective duration
Yielding(elements) ==
  SelectSeq(AudioElementsOf(elements),
            LAMBDA e : e.mediaItem.file /\ e.mediaItem.decodes
                         /\ EffectiveDuration(e.element) > 0)

\* C23: extractAudioFromTrack fails exactly when no element yields a
\* segment; an element that fails to decode is skipped, and the result is
\* the mix of the segments of the elements that remain, over the whole
\* track, starting at the earliest of them.
C23_DecodeFailureSkipped ==
  extractedAudio.track # NotCalled =>
    LET remaining == Yielding(audioElements)
        result == extractedAudio.track
    IN /\ result.outcome = "thrown" <=> remaining = <<>>
       /\ result.outcome = "returned" =>
            LET sampleRate == remaining[1].mediaItem.audioBuffer.sampleRate
                totalDuration == TrackEndTime(AudioElementsOf(audioElements))
            IN /\ result.sampleRate = sampleRate
               /\ result.duration = totalDuration
               /\ result.timelineOffset = remaining[1].element.startTime
               /\ result.audioData =
                    normalizeAudio(
                      MixSegments([p \in 1..ToSamples(totalDuration, sampleRate) |-> 0],
                                  AudioSegments(remaining), sampleRate))

\* a track of two elements, the first of which fails to decode: the call
\* returns the second one's audio, placed at its start
C23_Witness ==
  /\ extractedAudio.track.outcome = "returned"
  /\ Len(audioElements) = 2
  /\ audioElements[1].mediaItem.file
  /\ audioElements[1].mediaItem.type = "audio"
  /\ ~audioElements[1].mediaItem.decodes
  /\ audioElements[1].element.startTime = 0
  /\ audioElements[2].element.startTime = 3000
  /\ extractedAudio.track.timelineOffset = 3000
  /\ \E p \in DOMAIN extractedAudio.track.audioData : extractedAudio.track.audioData[p] # 0

\* the sum, at output position p (from 1), of the samples of the segments
\* that cover it, each segment lying from its startTime * sampleRate on
RECURSIVE SumAt(_, _, _)
SumAt(segments, p, sampleRate) ==
  IF segments = <<>> THEN 0
  ELSE LET startSample == ToSamples(Head(segments).startTime, sampleRate)
           segmentData == Head(segments).audioBuffer.channelData
       IN (IF p - 1 >= startSample /\ p - 1 < startSample + Len(segmentData)
           THEN segmentData[p - startSample] ELSE 0)
            + SumAt(Tail(segments), p, sampleRate)

\* C25: the track's mix has floor(trackEnd * sampleRate) samples, trackEnd
\* being the largest startTime + effective duration of the track's audio
\* elements, and before normalization each sample is the sum of the samples
\* of the segments covering its position, zero where none does; the audio
\* returned is that mix normalized.
C25_AdditiveMix ==
  extractedAudio.track.outcome = "returned" =>
    LET audioEls == AudioElementsOf(audioElements)
        segments == AudioSegments(audioEls)
        sampleRate == extractedAudio.track.sampleRate
        totalSamples == ToSamples(TrackEndTime(audioEls), sampleRate)
    IN /\ Len(extractedAudio.track.audioData) = totalSamples
       /\ extractedAudio.track.audioData =
            normalizeAudio([p \in 1..totalSamples |-> SumAt(segments, p, sampleRate)])

\* element A at 0 s lasting 5 s and element B at 3 s lasting 4 s, untrimmed,
\* at one sample per second: 7 samples, and in [3, 5) the sums 0.7 + 0.7 and
\* 0.8 + 0.8, scaled by 0.95 / 1.6 as the peak is 1.6
C25_Witness ==
  /\ extractedAudio.track.outcome = "returned"
  /\ extractedAudio.track.sampleRate = 1
  /\ Len(audioElements) = 2
  /\ audioElements[1].element = [startTime |-> 0, duration |-> 5000,
                                 trimStart |-> 0, trimEnd |-> 0]
  /\ audioElements[2].element = [startTime |-> 3000, duration |-> 4000,
                                 trimStart |-> 0, trimEnd |-> 0]
  /\ Len(AudioSegments(AudioElementsOf(audioElements))) = 2
  /\ extractedAudio.track.duration = 7000
  /\ Len(extractedAudio.track.audioData) = 7
  /\ extractedAudio.track.audioData[4] = (1400 * 950) \div 1600
  /\ extractedAudio.track.audioData[5] = 950
  /\ extractedAudio.track.audioData[6] = (600 * 950) \div 1600

\* C27: whenever the store says the worker is initialized it holds a worker.
C27_InitializedHasWorker ==
  isWorkerInitialized => worker # 0

\* C28: when the initializeWorker run that a processSelectedElement call
\* awaits resolves while the store holds a worker and an element is
\* selected, the call goes on with that worker: it does not stop at the
\* worker check ('Worker not available'), which is the one failure that
\* leaves the call without an element.
C28_InitThenPost ==
  [][\A c \in CallIds :
       (/\ calls[c].pc = "awaitInit"
        /\ inits[calls[c].awaits].pc # "resolved"
        /\ inits'[calls[c].awaits].pc = "resolved"
        /\ worker' # 0
        /\ getSelectedElementInfo # 0)
         => /\ ~(calls'[c].pc = "failed" /\ calls'[c].element = 0)
            /\ calls'[c].pc = "extracting" => calls'[c].worker = worker']_vars

\* C29: the record appended for a job names the track of the element whose
\* audio was submitted for that job.
C29_RecordNamesSubmittedElement ==
  \A n \in DOMAIN results : results[n].trackId = calls[results[n].id].element

\* C30: two successive insertions of a result at sentence granularity, with
\* the same element selected, add elements with the same start times and
\* durations.
C30_InsertionRepeatable ==
  \A k \in 1..(Len(tracks) - 1) :
    (/\ tracks[k] # <<>>
     /\ tracks[k + 1] # <<>>
     /\ tracks[k][1].name[1] = "Subtitle"
     /\ tracks[k + 1][1].name[1] = "Subtitle")
      => /\ Len(tracks[k + 1]) = Len(tracks[k])
         /\ \A i \in DOMAIN tracks[k] :
              /\ tracks[k + 1][i].startTime = tracks[k][i].startTime
              /\ tracks[k + 1][i].duration = tracks[k][i].duration

\* C31: a non-null instance of the factory is a pipeline built for
\* currentModel, and a getInstance call that has returned was given a
\* pipeline built for the model it named.
C31_InstanceBuiltForCurrentModel ==
  /\ instance # 0 => pipelines[instance].model = currentModel
  /\ \A g \in GetIds :
       gets[g].pc = "returned" => pipelines[gets[g].result].model = gets[g].model

\* the initializeWorker runs whose promise has not settled
PendingInits == {i \in WorkerIds : inits[i].pc \in {"awaitReady", "awaitBackend"}}

\* C32: an initializeWorker call made while an earlier call is still pending
\* starts no second run and creates no second worker, so at most one
\* initialization is pending at any time.
C32_SharedInitialization ==
  [][/\ PendingInits # {}
        => \A j \in WorkerIds : inits[j].pc = "none" => inits'[j].pc = "none"
     /\ Cardinality(PendingInits) <= 1]_vars

\* C33: isProcessing is false whenever the stage is 'ready', 'error' or
\* 'terminated', and true only in the stages loading, initializing,
\* downloading and transcribing.
C33_ProcessingOnlyInWorkStages ==
  /\ processingStatus.stage \in {"ready", "error", "terminated"}
       => ~processingStatus.isProcessing
  /\ processingStatus.isProcessing
       => processingStatus.stage \in {"loading", "initializing", "downloading",
                                      "transcribing"}

\* C40: no element of an added track has a negative duration, and a duration
\* of 0 occurs only where the next element in start-time order starts at the
\* same time.
C40_NoNegativeDuration ==
  \A k \in DOMAIN tracks :
    \A i \in DOMAIN tracks[k] :
      /\ tracks[k][i].duration >= 0
      /\ tracks[k][i].duration = 0
           => /\ i < Len(tracks[k])
              /\ tracks[k][i + 1].startTime = tracks[k][i].startTime

\* both granularities have been inserted; one track was built from chunks
\* given out of start-time order and one holds an element cut to nothing by
\* a neighbour starting at the same time
C40_Witness ==
  /\ \E k \in DOMAIN tracks : tracks[k] # <<>> /\ tracks[k][1].name[1] = "Subtitle"
  /\ \E k \in DOMAIN tracks : tracks[k] # <<>> /\ tracks[k][1].name[1] = "Word"
  /\ \E k \in DOMAIN tracks :
       \E i \in DOMAIN tracks[k] :
         /\ i < Len(tracks[k])
         /\ tracks[k][i].name[2] > tracks[k][i + 1].name[2]
  /\ \E k \in DOMAIN tracks :
       \E i \in DOMAIN tracks[k] :
         /\ tracks[k][i].duration = 0
         /\ tracks[k][i + 1].startTime = tracks[k][i].startTime

\* the step posts a 'transcribing' update
PostsUpdate ==
  /\ Len(transcribeCall'.posted) = Len(transcribeCall.posted) + 1
  /\ transcribeCall'.posted[Len(transcribeCall'.posted)].status = "update"

NewUpdate == transcribeCall'.posted[Len(transcribeCall'.posted)]

\* C36: every 'transcribing' update carries progress
\* min(95, 15 * completed windows + 5 * finalised chunks), the open chunk
\* not counted, and never more than 95.
C36_ProgressCountsFinalised ==
  [][PostsUpdate
       => /\ NewUpdate.progress =
               Min(95, (15 * transcribeCall.chunk_count)
                         + (5 * Len(Finalised(transcribeCall'.chunks))))
          /\ NewUpdate.progress <= 95]_vars

\* C37: the text of a chunk does not change once the chunk is finalised, and
\* the currentText of an update is the text of a chunk that is not finalised.
C37_TextOnlyToOpenChunk ==
  [][/\ \A n \in DOMAIN transcribeCall.chunks :
          transcribeCall.chunks[n].finalised
            => transcribeCall'.chunks[n].text = transcribeCall.chunks[n].text
     /\ PostsUpdate
          => \E n \in DOMAIN transcribeCall'.chunks :
               /\ ~transcribeCall'.chunks[n].finalised
               /\ transcribeCall'.chunks[n].text = NewUpdate.currentText]_vars

\* C38: the chunks of every update are finalised and have an end timestamp;
\* the chunks of the final result are those of the finalised chunks with a
\* non-empty trimmed text, each with that text and numeric start and end, so
\* that a chunk still open when the engine returns is not among them.
C38_OnlyFinalisedExposed ==
  \A i \in DOMAIN transcribeCall.posted :
    LET m == transcribeCall.posted[i]
    IN /\ m.status = "update"
          => \A n \in DOMAIN m.chunks :
               m.chunks[n].finalised /\ m.chunks[n].timestamp[2] # Null
       /\ m.status = "complete"
          => /\ \A n \in DOMAIN m.chunks :
                  /\ m.chunks[n].text # <<>>
                  /\ m.chunks[n].text = trim(m.chunks[n].text)
                  /\ m.chunks[n].timestamp[1] # Null
                  /\ m.chunks[n].timestamp[2] # Null
                  /\ \E k \in DOMAIN transcribeCall.chunks :
                       /\ transcribeCall.chunks[k].finalised
                       /\ trim(transcribeCall.chunks[k].text) = m.chunks[n].text
                       /\ transcribeCall.chunks[k].timestamp[1] = m.chunks[n].timestamp[1]
             /\ Len(m.chunks) =
                  Len(SelectSeq(transcribeCall.chunks,
                                LAMBDA c : c.finalised /\ trim(c.text) # <<>>))

\* an update has shown a finalised chunk next to the open chunk's text, and
\* the engine has returned with a finalised chunk and a chunk still open that
\* holds text: the result has the finalised one only
C38_Witness ==
  /\ transcribeCall.pc = "returned"
  /\ \E i \in DOMAIN transcribeCall.posted :
       /\ transcribeCall.posted[i].status = "update"
       /\ Len(transcribeCall.posted[i].chunks) = 1
  /\ Len(transcribeCall.chunks) = 2
  /\ transcribeCall.chunks[1].finalised
  /\ ~transcribeCall.chunks[2].finalised
  /\ trim(transcribeCall.chunks[2].text) # <<>>
  /\ Len(transcribeCall.posted[Len(transcribeCall.posted)].chunks) = 1

\* the job's message has no audio, empty audio, or names no model
Rejectable(c) == jobs[c].audio # "samples" \/ calls[c].model = ""

\* C39: a job without audio or without a model is answered with 'error'
\* messages only, never 'complete', and never reaches the model singleton:
\* it makes no getInstance call and its steps leave instance, currentModel
\* and the pipelines as they are.
C39_RejectedBeforeModelWork ==
  [][\A c \in CallIds :
       Rejectable(c) =>
         LET new == NewMsgs(calls[c].worker)
         IN /\ jobs'[c].get = 0
            /\ calls'[c].job \notin {"loading", "transcribing"}
            /\ calls'[c].job # calls[c].job => UNCHANGED factoryVars
            /\ (calls[c].job # "sent" /\ calls'[c].job = "sent")
                 => /\ new # <<>>
                    /\ \A n \in DOMAIN new : new[n].status = "error" /\ new[n].job = c
            /\ \A n \in DOMAIN workers'[calls[c].worker].outbox :
                 LET m == workers'[calls[c].worker].outbox[n]
                 IN m.job = c => m.status = "error"]_vars

\* a job naming no model and a job with empty audio have both been rejected
\* or one was rejected while the model loaded for another job is in place
C39_Witness ==
  \E c, d \in CallIds :
    /\ c # d
    /\ jobs[c].audio \in {"missing", "empty"}
    /\ calls[c].job = "sent"
    /\ \E n \in DOMAIN workers[1].outbox :
         /\ workers[1].outbox[n].job = c
         /\ workers[1].outbox[n].message = ErrNoAudio
    /\ ~Rejectable(d)
    /\ calls[d].job = "transcribing"
    /\ instance # 0
    /\ currentModel = calls[d].model
    /\ pipelines[instance].state = "live"

\* call p is an initialize call
IsInitialize(p) == p \in DOMAIN ttsCalls /\ ttsCalls[p].kind = "initialize"

InitializeIs(p, state) == IsInitialize(p) /\ ttsCalls[p].state = state

\* C34: once the tts worker has posted 'ready' every initialize call, made
\* before or after, first or joining, comes to be resolved; once it has
\* posted 'error' every initialize call comes to be rejected.
C34_InitializeSettles ==
  \A p \in 1..MaxTtsCalls :
    /\ (IsInitialize(p) /\ ttsWorker.pc = "ready")
         ~> InitializeIs(p, "resolved")
    /\ (IsInitialize(p) /\ ttsWorker.pc = "failed")
         ~> InitializeIs(p, "rejected")

\* the generateSpeech calls a step settles
SettledSpeech ==
  {p \in DOMAIN ttsCalls :
     /\ ttsCalls[p].kind = "generateSpeech"
     /\ ttsCalls[p].state = "pending"
     /\ ttsCalls'[p].state # "pending"}

\* C35: one worker message settles at most one generateSpeech call, and a
\* call that resolves holds the audio generated for its own text.
C35_SpeechSettlesWithOwnOutcome ==
  [][/\ Cardinality(SettledSpeech) <= 1
     /\ \A p \in SettledSpeech :
          ttsCalls'[p].state = "resolved"
            => ttsCalls'[p].value = AudioOf(ttsCalls[p].text)]_vars

====
